---- MODULE Spec2Model ----
(***************************************************************************)
(* Offline-first audit synchronisation of the Angular sandbox template:    *)
(* AuditActionService (the orchestrator) over AuditStorageService (the     *)
(* IndexedDB record store), AuditStateService (the active view),           *)
(* SyncStateService (the sync state) and AuditApiService (the mock remote).*)
(*                                                                         *)
(* Scheduling.  JavaScript runs one task at a time.  A handler or callback *)
(* is one atomic action.  Storage requests are IndexedDB transactions on   *)
(* one object store: they take effect and call back in the order they were *)
(* issued (storageQ, a FIFO).  Remote calls answer in any order (inflight, *)
(* a bag).  The mock remote changes its data at call time and answers      *)
(* later; its own 400/404 answers are thrown synchronously (throwError).   *)
(* Besides the mock's own answers a remote call may fail in transport: the *)
(* remote is then unchanged and the error arrives asynchronously.          *)
(*                                                                         *)
(* Identifiers.  A server identifier (mockAudits.length + 1).toString() is *)
(* the positive integer; the k-th minted identifier `local_...` is -k.     *)
(* DateReceived / TimeReceived are carried unchanged by every operation    *)
(* and are left out of the records.                                        *)
(***************************************************************************)
EXTENDS Integers, Sequences, FiniteSets, Bags, TLC

\* ------------------------------------------------------------------ bounds
\* user operations (load, create, update, delete, network change) per run
MaxOps == 2
\* manual syncs per run
MaxSyncs == 1
\* the clock's values (Date.now(), _lastModified), from 0
MaxTime == 2
\* records the remote holds at start (the mock ships four)
NumSeed == 1
\* records created offline that an earlier session left pending
MaxInitPending == 1
\* operations on the record store per run, when the store is driven directly
MaxStoreOps == 4
\* calls of ItemApiService and writes to what it returned, per run
MaxItemOps == 3
\* calls of SyncStateService's conflict mutators
MaxConflictOps == 3

\* ------------------------------------------------------------- field values
Blank == ""
Spaces == " "
GoodBarcode == "12345678"
BadBarcode == "123"

\* String.prototype.trim on the strings of the model
Trim(v) == IF v = Spaces THEN Blank ELSE v

\* barcode.replace(/\D/g, '').length on the strings of the model
DigitCount(v) == IF v = GoodBarcode THEN 8 ELSE IF v = BadBarcode THEN 3 ELSE 0

Request(slot, barcode, logistics, comments, auditors, location) ==
    [slotNumber |-> slot, primaryBarcode |-> barcode, warehouseLogistics |-> logistics,
     comments |-> comments, auditors |-> auditors, warehouseLocation |-> location]

RequiredFields ==
    {"slotNumber", "primaryBarcode", "warehouseLogistics", "auditors", "warehouseLocation"}

\* the request a form submits with the fields of S left empty or white space
FormRequest(S, barcode) ==
    Request(IF "slotNumber" \in S THEN Blank ELSE "A-001",
            IF "primaryBarcode" \in S THEN Spaces ELSE barcode,
            IF "warehouseLogistics" \in S THEN Blank ELSE "Inbound",
            "c2",
            IF "auditors" \in S THEN Spaces ELSE "John",
            IF "warehouseLocation" \in S THEN Blank ELSE "WH-A")

\* ... with a required field blank: each field alone, two fields, all of them
BlankRequests ==
    { FormRequest(S, GoodBarcode) :
        S \in {{f} : f \in RequiredFields}
              \cup {{"slotNumber", "warehouseLocation"}, RequiredFields} }

\* the requests a form can submit: these, a valid one, one with a malformed barcode
AllRequests ==
    BlankRequests \cup {FormRequest({}, GoodBarcode), FormRequest({}, BadBarcode)}

\* the requests the orchestrator runs are given: valid ones, their content unlike the seed's
GoodRequest(k) == Request("A-001", GoodBarcode, "Inbound", k, "John", "WH-A")
Versions == {"c2"}

ApiRecord(id, r, synced) ==
    [ExternalId |-> id, SlotNumber |-> r.slotNumber, PrimaryBarcode |-> r.primaryBarcode,
     WarehouseLogistics |-> r.warehouseLogistics, Comments |-> r.comments,
     Auditors |-> r.auditors, WarehouseLocation |-> r.warehouseLocation, Synced |-> synced]

\* the absent record (null / undefined), of the records' shape
NoRecord == ApiRecord(0, Request(Blank, Blank, Blank, Blank, Blank, Blank), 0)

\* the mock's seed data
SeedAudits == [i \in 1..NumSeed |-> ApiRecord(i, GoodRequest("c1"), 1)]

StartsWithLocal(id) == id < 0

\* `local_${Date.now()}_${Math.random()...}`: the k-th identifier minted
LocalId(k) == 0 - k

\* ------------------------------------------------------------------- state
VARIABLES
    store,               \* IndexedDB 'audits' object store: ExternalId -> OfflineAuditItem
    audits,              \* AuditStateService._audits: the active view
    loading,             \* AuditStateService._loading
    error,               \* AuditStateService._error (<<>> is null)
    syncStatus,          \* SyncStateService._syncStatus
    currentOperation,    \* SyncStateService._currentOperation ("null" is null)
    currentItemId,       \* SyncStateService._currentItemId (0 is null)
    syncError,           \* SyncStateService._syncError ("" is null)
    pendingRecordsCount, \* SyncStateService._pendingRecordsCount
    isOnline,            \* NetworkStatusService._isOnline
    mockAudits,          \* AuditApiService.mockAudits: the remote's data
    storageQ,            \* storage requests issued and not yet completed, oldest first
    inflight,            \* remote calls awaiting their answer
    runs,                \* per processPendingAudits call: its `processed` and `total`
    errorLog,            \* the identifiers handleSyncError wrote to console.error
    conflicts,           \* SyncStateService._conflicts
    db,                  \* AuditStorageService.db / dbReady$: "opening", "open", "failed"
    nextLocal,           \* local identifiers minted so far
    created,             \* the local identifiers the remote created a record for, a bag
    raced,               \* the records deleteAudit was called for with their create in flight
    itemApi,             \* ItemApiService: the objects allocated (heap), mockItems (an
                         \* array of references to them) and the arrays handed to callers
    clock,               \* what Date.now() gives
    lastModified,        \* the _lastModified of each stored record
    lastSyncTime,        \* SyncStateService._lastSyncTime (NoTime is null)
    itemState,           \* ItemStateService: _items, _selectedItem, _loading, _error
    itemCalls,           \* ItemApiService calls of ItemActionService awaiting their answer
    probe,               \* the pure function or store operation applied last: its
                         \* arguments and its result
    ops,                 \* user operations so far
    ev                   \* the handler or callback that ran last, and what it saw

vars == <<store, audits, loading, error, syncStatus, currentOperation, currentItemId,
          syncError, pendingRecordsCount, isOnline, mockAudits, storageQ, inflight,
          runs, errorLog, conflicts, db, nextLocal, created, raced, itemApi, clock,
          lastModified, lastSyncTime, itemState, itemCalls, probe, ops, ev>>

\* the program state as one value, so that a handler is a function of it
Cur ==
    [store |-> store, audits |-> audits, loading |-> loading, error |-> error,
     syncStatus |-> syncStatus, currentOperation |-> currentOperation,
     currentItemId |-> currentItemId, syncError |-> syncError,
     pendingRecordsCount |-> pendingRecordsCount, isOnline |-> isOnline,
     mockAudits |-> mockAudits, storageQ |-> storageQ, inflight |-> inflight,
     runs |-> runs, errorLog |-> errorLog, conflicts |-> conflicts, nextLocal |-> nextLocal,
     created |-> created, raced |-> raced, clock |-> clock,
     lastModified |-> lastModified, lastSyncTime |-> lastSyncTime,
     calls |-> 0]

NoError == <<>>
NoSyncError == ""
\* _lastSyncTime's null; a Date is <<its time>>
NoTime == <<>>

\* no pure function applied yet
NoProbe == [fn |-> "none"]

\* ------------------------------------------------ AuditTransformationService
transformApiAuditToAudit(a) ==
    [externalId |-> a.ExternalId, slotNumber |-> a.SlotNumber,
     primaryBarcode |-> a.PrimaryBarcode, warehouseLogistics |-> a.WarehouseLogistics,
     comments |-> a.Comments, auditors |-> a.Auditors,
     warehouseLocation |-> a.WarehouseLocation, synced |-> (a.Synced = 1)]

transformApiAuditsToAudits(list) ==
    [i \in 1..Len(list) |-> transformApiAuditToAudit(list[i])]

\* the OfflineAuditRecord case: the six business fields of a stored record
transformCreateRequestToApiRequest(a) ==
    Request(a.SlotNumber, a.PrimaryBarcode, a.WarehouseLogistics, a.Comments,
            a.Auditors, a.WarehouseLocation)

isValidGTIN(barcode) == DigitCount(barcode) \in {8, 12, 13, 14}

\* validateAuditData without its test of the auditor name
validateAuditDataSkippingAuditors(r) ==
    (IF Trim(r.slotNumber) = Blank THEN <<"Slot number is required">> ELSE <<>>)
    \o (IF Trim(r.primaryBarcode) = Blank THEN <<"Primary barcode is required">> ELSE <<>>)
    \o (IF Trim(r.warehouseLogistics) = Blank
        THEN <<"Warehouse logistics is required">> ELSE <<>>)
    \o (IF Trim(r.warehouseLocation) = Blank
        THEN <<"Warehouse location is required">> ELSE <<>>)
    \o (IF r.primaryBarcode # Blank /\ ~isValidGTIN(r.primaryBarcode)
        THEN <<"Invalid barcode format">> ELSE <<>>)

validateAuditData(r) ==
    (IF Trim(r.slotNumber) = Blank THEN <<"Slot number is required">> ELSE <<>>)
    \o (IF Trim(r.primaryBarcode) = Blank THEN <<"Primary barcode is required">> ELSE <<>>)
    \o (IF Trim(r.warehouseLogistics) = Blank
        THEN <<"Warehouse logistics is required">> ELSE <<>>)
    \o (IF Trim(r.auditors) = Blank THEN <<"Auditor name is required">> ELSE <<>>)
    \o (IF Trim(r.warehouseLocation) = Blank
        THEN <<"Warehouse location is required">> ELSE <<>>)
    \o (IF r.primaryBarcode # Blank /\ ~isValidGTIN(r.primaryBarcode)
        THEN <<"Invalid barcode format">> ELSE <<>>)

\* ----------------------------------------------------------- AuditSyncService
BusinessFields ==
    {"SlotNumber", "PrimaryBarcode", "WarehouseLogistics", "Comments", "Auditors",
     "WarehouseLocation"}

\* detectConflict's null
NoConflict == [conflict |-> FALSE]

AuditConflictData(localAudit, serverAudit, localModified, serverModified) ==
    [conflict |-> TRUE, localAudit |-> localAudit, serverAudit |-> serverAudit,
     localModified |-> localModified, serverModified |-> serverModified]

\* detectConflict without its comparison of the timestamps
detectConflictIgnoringTime(localAudit, serverAudit, localModified, now) ==
    LET serverModified == now
        hasConflict ==
            \/ localAudit.SlotNumber # serverAudit.SlotNumber
            \/ localAudit.PrimaryBarcode # serverAudit.PrimaryBarcode
            \/ localAudit.WarehouseLogistics # serverAudit.WarehouseLogistics
            \/ localAudit.Comments # serverAudit.Comments
            \/ localAudit.Auditors # serverAudit.Auditors
            \/ localAudit.WarehouseLocation # serverAudit.WarehouseLocation
    IN  IF hasConflict
        THEN AuditConflictData(localAudit, serverAudit, localModified, serverModified)
        ELSE NoConflict

\* detectConflict confirming also when localModified equals the time of detection
detectConflictNotBefore(localAudit, serverAudit, localModified, now) ==
    LET serverModified == now
    IN  IF localModified >= serverModified
        THEN detectConflictIgnoringTime(localAudit, serverAudit, localModified, now)
        ELSE NoConflict

\* detectConflict; now: what new Date().getTime() gives during the call
detectConflict(localAudit, serverAudit, localModified, now) ==
    LET serverModified == now
        hasConflict ==
            /\ localModified > serverModified
            /\ \/ localAudit.SlotNumber # serverAudit.SlotNumber
               \/ localAudit.PrimaryBarcode # serverAudit.PrimaryBarcode
               \/ localAudit.WarehouseLogistics # serverAudit.WarehouseLogistics
               \/ localAudit.Comments # serverAudit.Comments
               \/ localAudit.Auditors # serverAudit.Auditors
               \/ localAudit.WarehouseLocation # serverAudit.WarehouseLocation
    IN  IF hasConflict
        THEN AuditConflictData(localAudit, serverAudit, localModified, serverModified)
        ELSE NoConflict

\* resolveConflict giving a tie to the local side
resolveConflictTieToLocal(conflict) ==
    IF conflict.localModified >= conflict.serverModified THEN "use-local" ELSE "use-server"

resolveConflict(conflict) ==
    IF conflict.localModified > conflict.serverModified THEN "use-local" ELSE "use-server"

\* ------------------------------------------------------ NetworkStatusService
\* downlink in hundredths of Mbps, rtt in ms; Undefined: the property is absent
Undefined == 0 - 1
SlowDownlink == 50
FastDownlink == 150
HighRtt == 2000

\* navigator.connection, or NoConnection where the browser has none
Connection(effectiveType, downlink, rtt, saveData) ==
    [effectiveType |-> effectiveType, downlink |-> downlink, rtt |-> rtt,
     saveData |-> saveData]
NoConnection == Connection("undefined", Undefined, Undefined, FALSE)
Connections ==
    {Connection(e, d, r, sd) :
        e \in {"2g", "4g"}, d \in {0, 25, FastDownlink, 1000}, r \in {100, 3000},
        sd \in BOOLEAN}

\* NetworkInfo; an absent saveData is falsy
NetworkInfo(status, c) ==
    [status |-> status, effectiveType |-> c.effectiveType, downlink |-> c.downlink,
     rtt |-> c.rtt, saveData |-> c.saveData]

determineConnectionQuality(connection) ==
    LET isSlowEffectiveType == connection.effectiveType \in {"slow-2g", "2g"}
        isSlowDownlink == connection.downlink # 0 /\ connection.downlink < SlowDownlink
        isHighRtt == connection.rtt # 0 /\ connection.rtt > HighRtt
    IN  IF isSlowEffectiveType \/ isSlowDownlink \/ isHighRtt THEN "slow" ELSE "online"

\* the value updateNetworkInfo sets _networkInfo to
updateNetworkInfo(online, connection) ==
    IF online /\ connection # NoConnection
    THEN NetworkInfo(determineConnectionQuality(connection), connection)
    ELSE NetworkInfo(IF online THEN "online" ELSE "offline", NoConnection)

\* the value simulateSlowConnection sets _networkInfo to
simulateSlowConnection == NetworkInfo("slow", Connection("2g", 25, 3000, FALSE))

\* isFastConnection testing downlink >= 1.5
isFastConnectionAtLeast(info) ==
    /\ info.status = "online"
    /\ (IF info.downlink = Undefined THEN 0 ELSE info.downlink) >= FastDownlink

isFastConnection(info) ==
    /\ info.status = "online"
    /\ (IF info.downlink = Undefined THEN 0 ELSE info.downlink) > FastDownlink

getSyncStrategy(info) ==
    IF info.status = "offline" THEN "skip"
    ELSE IF info.status = "slow" \/ info.saveData THEN "delayed"
    ELSE IF isFastConnection(info) THEN "immediate"
    ELSE "delayed"

\* ------------------------------------------------------ AuditStorageService
OfflineItem(a, status) ==
    [ExternalId |-> a.ExternalId, SlotNumber |-> a.SlotNumber,
     PrimaryBarcode |-> a.PrimaryBarcode, WarehouseLogistics |-> a.WarehouseLogistics,
     Comments |-> a.Comments, Auditors |-> a.Auditors,
     WarehouseLocation |-> a.WarehouseLocation, Synced |-> a.Synced, _status |-> status]

\* the object store's key order: "1" < "2" < ... < "local_<earlier>" < "local_<later>"
KeyBefore(a, b) ==
    IF StartsWithLocal(a) = StartsWithLocal(b)
    THEN (IF StartsWithLocal(a) THEN a > b ELSE a < b)
    ELSE ~StartsWithLocal(a)

RECURSIVE KeyOrder(_)
KeyOrder(S) ==
    IF S = {} THEN <<>>
    ELSE LET m == CHOOSE x \in S : \A y \in S \ {x} : KeyBefore(x, y)
         IN  <<m>> \o KeyOrder(S \ {m})

\* the stored records with one of the statuses, in key order
ItemsWithStatus(st, statuses) ==
    LET ids == KeyOrder({id \in DOMAIN st : st[id]._status \in statuses})
    IN  [i \in 1..Len(ids) |-> st[ids[i]]]

\* getAllItems without its filter on _status
getAllItemsUnfiltered(st) == ItemsWithStatus(st, {"synced", "pending", "deleted"})

getAllItems(st) == ItemsWithStatus(st, {"synced", "pending"})

\* getItem's null
NoItem == OfflineItem(NoRecord, "null")

getItem(st, id) ==
    IF id \in DOMAIN st /\ st[id]._status # "deleted" THEN st[id] ELSE NoItem
getPendingItems(st) == ItemsWithStatus(st, {"pending"})
getDeletedItems(st) == ItemsWithStatus(st, {"deleted"})

\* store.put(item): insert or replace by key
Put(st, item) ==
    [id \in DOMAIN st \cup {item.ExternalId} |->
        IF id = item.ExternalId THEN item ELSE st[id]]

saveItem(st, a, status) == Put(st, OfflineItem(a, status))

\* updateItem: {...existingAudit, ...updates, _status: status}; an absent id is
\* rejected and the store left alone
updateItem(st, id, updates, status) ==
    IF id \notin DOMAIN st THEN st
    ELSE Put(st, [f \in DOMAIN st[id] |->
                    IF f = "_status" THEN status
                    ELSE IF f \in DOMAIN updates THEN updates[f]
                    ELSE st[id][f]])

deleteItem(st, id) ==
    IF id \notin DOMAIN st THEN st
    ELSE Put(st, [st[id] EXCEPT !._status = "deleted"])

markAsSynced(st, id) ==
    IF id \notin DOMAIN st THEN st
    ELSE Put(st, [st[id] EXCEPT !._status = "synced"])

removeItem(st, id) == [k \in DOMAIN st \ {id} |-> st[k]]

\* _lastModified: Date.now() of saveItem, updateItem, deleteItem and markAsSynced:
\* m after a transaction that left the store st having put the records `written`
Stamp(m, st, written, now) ==
    [id \in DOMAIN st |-> IF id \in written \/ id \notin DOMAIN m THEN now ELSE m[id]]

\* -------------------------------------------------------- AuditStateService
setAudits(s, list) == [s EXCEPT !.audits = list]

addAudit(s, a) == [s EXCEPT !.audits = Append(@, a)]

stateUpdateAudit(s, a) ==
    [s EXCEPT !.audits =
        [i \in 1..Len(@) |-> IF @[i].externalId = a.externalId THEN a ELSE @[i]]]

removeAudit(s, id) ==
    LET Keep(a) == a.externalId # id
    IN  [s EXCEPT !.audits = SelectSeq(@, Keep)]

setLoading(s, b) == [s EXCEPT !.loading = b]
setError(s, e) == [s EXCEPT !.error = e]
clearError(s) == [s EXCEPT !.error = NoError]

\* AuditStateService.reset
stateReset(s) == [s EXCEPT !.audits = <<>>, !.loading = FALSE, !.error = NoError]

\* --------------------------------------------------------- SyncStateService
setSyncStatus(s, status) ==
    IF status = "success"
    THEN [s EXCEPT !.syncStatus = status, !.lastSyncTime = <<s.clock>>,
                   !.syncError = NoSyncError]
    ELSE [s EXCEPT !.syncStatus = status]

setCurrentOperation(s, operation, itemId) ==
    [s EXCEPT !.currentOperation = operation, !.currentItemId = itemId]

setSyncError(s, e) ==
    IF e # NoSyncError
    THEN [s EXCEPT !.syncError = e, !.syncStatus = "error"]
    ELSE [s EXCEPT !.syncError = e]

clearSyncError(s) ==
    IF s.syncStatus = "error"
    THEN [s EXCEPT !.syncError = NoSyncError, !.syncStatus = "idle"]
    ELSE [s EXCEPT !.syncError = NoSyncError]

\* SyncStateService.reset
syncStateReset(s) ==
    [s EXCEPT !.syncStatus = "idle", !.currentOperation = "null", !.currentItemId = 0,
              !.lastSyncTime = NoTime, !.syncError = NoSyncError,
              !.pendingRecordsCount = 0, !.conflicts = <<>>]

isSyncing(s) == s.syncStatus = "syncing"

ConflictInfo(itemId, localModified, serverModified, resolved) ==
    [itemId |-> itemId, localModified |-> localModified,
     serverModified |-> serverModified, resolved |-> resolved]

\* addConflict without its look for an existing entry
addConflictAppending(s, itemId, localModified, serverModified) ==
    [s EXCEPT !.conflicts = Append(@, ConflictInfo(itemId, localModified, serverModified, FALSE))]

addConflict(s, itemId, localModified, serverModified) ==
    LET conflict == ConflictInfo(itemId, localModified, serverModified, FALSE)
    IN  IF \E i \in 1..Len(s.conflicts) : s.conflicts[i].itemId = itemId
        THEN [s EXCEPT !.conflicts =
                [i \in 1..Len(@) |-> IF @[i].itemId = itemId THEN conflict ELSE @[i]]]
        ELSE [s EXCEPT !.conflicts = Append(@, conflict)]

removeConflict(s, itemId) ==
    [s EXCEPT !.conflicts = SelectSeq(@, LAMBDA c : c.itemId # itemId)]

clearConflicts(s) == [s EXCEPT !.conflicts = <<>>]

markConflictResolved(s, itemId) ==
    [s EXCEPT !.conflicts =
        [i \in 1..Len(@) |->
            IF @[i].itemId = itemId THEN [@[i] EXCEPT !.resolved = TRUE] ELSE @[i]]]

Max(a, b) == IF a > b THEN a ELSE b

setPendingRecordsCount(s, count) == [s EXCEPT !.pendingRecordsCount = Max(0, count)]

\* ---------------------------------------------------------- AuditApiService
\* validateCreateRequest: the first missing field's message, or "" (null)
validateCreateRequest(r) ==
    IF Trim(r.slotNumber) = Blank THEN "Slot number is required"
    ELSE IF Trim(r.primaryBarcode) = Blank THEN "Primary barcode is required"
    ELSE IF Trim(r.warehouseLogistics) = Blank THEN "Warehouse logistics is required"
    ELSE IF Trim(r.auditors) = Blank THEN "Auditor name is required"
    ELSE IF Trim(r.warehouseLocation) = Blank THEN "Warehouse location is required"
    ELSE ""

\* mockAudits.findIndex(a => a.ExternalId === id), 0 for -1
findIndex(list, id) ==
    IF \E i \in 1..Len(list) : list[i].ExternalId = id
    THEN CHOOSE i \in 1..Len(list) :
            /\ list[i].ExternalId = id
            /\ \A j \in 1..(i - 1) : list[j].ExternalId # id
    ELSE 0

\* the record createAudit pushes and returns
apiCreated(list, r) == ApiRecord(Len(list) + 1, r, 1)

\* the record updateAudit stores and returns
apiUpdated(list, id, r) == ApiRecord(id, r, 1)

\* mockAudits.splice(index, 1)
splice(list, index) ==
    [i \in 1..(Len(list) - 1) |-> IF i < index THEN list[i] ELSE list[i + 1]]

\* ----------------------------------------------------------- ItemApiService
\* JavaScript objects are held by reference: heap[r] is the object r refers to, an
\* array is a sequence of references
ApiItem(id, name, quantity) == [id |-> id, name |-> name, quantity |-> quantity]

\* the service as constructed: mockItems (the first two of its records)
ItemApiService ==
    [heap |-> <<ApiItem(1, "Laptop", 5), ApiItem(2, "Office Chair", 12)>>,
     mockItems |-> <<1, 2>>,
     handed |-> {}]

\* {...o}: a new object with o's properties; its reference is Len(heap) + 1
Allocate(x, o) == [x EXCEPT !.heap = Append(@, o)]

\* what the caller is given: an array (or one object) and the method that built it
Hand(x, from, refs) == [x EXCEPT !.handed = @ \cup {[from |-> from, refs |-> refs]}]

\* mockItems.findIndex(i => i.id === id), 0 for -1
ItemIndex(x, id) ==
    IF \E i \in 1..Len(x.mockItems) : x.heap[x.mockItems[i]].id = id
    THEN CHOOSE i \in 1..Len(x.mockItems) :
            /\ x.heap[x.mockItems[i]].id = id
            /\ \A j \in 1..(i - 1) : x.heap[x.mockItems[j]].id # id
    ELSE 0

\* getItems: of([...this.mockItems]), a new array of the same references
ItemApi_getItems(x) == Hand(x, "getItems", x.mockItems)

\* getItem: of({...item}), or 404
ItemApi_getItem(x, id) ==
    LET index == ItemIndex(x, id)
    IN  IF index = 0 THEN x
        ELSE Hand(Allocate(x, x.heap[x.mockItems[index]]), "getItem", <<Len(x.heap) + 1>>)

\* createItem: newItem is pushed, {...newItem} is returned
ItemApi_createItem(x, name, quantity) ==
    LET newItem == ApiItem(Len(x.mockItems) + 1, name, quantity)
        x1 == Allocate(x, newItem)
        x2 == [x1 EXCEPT !.mockItems = Append(@, Len(x1.heap))]
    IN  Hand(Allocate(x2, newItem), "createItem", <<Len(x2.heap) + 1>>)

\* updateItem: updatedItem replaces mockItems[index], {...updatedItem} is returned
ItemApi_updateItem(x, id, name) ==
    LET index == ItemIndex(x, id)
        updatedItem == [x.heap[x.mockItems[index]] EXCEPT !.name = name]
        x1 == Allocate(x, updatedItem)
        x2 == [x1 EXCEPT !.mockItems[index] = Len(x1.heap)]
    IN  IF index = 0 THEN x
        ELSE Hand(Allocate(x2, updatedItem), "updateItem", <<Len(x2.heap) + 1>>)

\* deleteItem: mockItems.splice(index, 1), or 404
ItemApi_deleteItem(x, id) ==
    LET index == ItemIndex(x, id)
    IN  IF index = 0 THEN x ELSE [x EXCEPT !.mockItems = splice(@, index)]

\* a caller's items[i].name = name, on the object r that items[i] refers to
WriteName(x, r, name) == [x EXCEPT !.heap[r].name = name]

\* the records a getItems call made now would deliver
ItemData(x) == [i \in 1..Len(x.mockItems) |-> x.heap[x.mockItems[i]]]

\* ---------------------------------------------------------- ItemStateService
\* transformApiItemToItem: the Item of an ApiItem
transformApiItemToItem(apiItem) ==
    [id |-> apiItem.id, name |-> apiItem.name, quantity |-> apiItem.quantity]

\* _selectedItem's null
NoSelection == [id |-> 0, name |-> "", quantity |-> 0]

\* the service as constructed
ItemStateService ==
    [items |-> <<>>, selectedItem |-> NoSelection, loading |-> FALSE, error |-> ""]

ItemState_setItems(st, items) == [st EXCEPT !.items = items]

ItemState_addItem(st, item) == [st EXCEPT !.items = Append(@, item)]

\* updateItem without its look at the selection
ItemState_updateItemListOnly(st, updatedItem) ==
    [st EXCEPT !.items = [i \in 1..Len(@) |->
                             IF @[i].id = updatedItem.id THEN updatedItem ELSE @[i]]]

ItemState_updateItem(st, updatedItem) ==
    [st EXCEPT !.items = [i \in 1..Len(@) |->
                             IF @[i].id = updatedItem.id THEN updatedItem ELSE @[i]],
               !.selectedItem = IF @ # NoSelection /\ @.id = updatedItem.id
                                THEN updatedItem ELSE @]

ItemState_removeItem(st, itemId) ==
    [st EXCEPT !.items = SelectSeq(@, LAMBDA item : item.id # itemId),
               !.selectedItem = IF @ # NoSelection /\ @.id = itemId THEN NoSelection ELSE @]

ItemState_selectItem(st, item) == [st EXCEPT !.selectedItem = item]

ItemState_setLoading(st, value) == [st EXCEPT !.loading = value]

ItemState_setError(st, e) == [st EXCEPT !.error = e]

ItemState_clearError(st) == [st EXCEPT !.error = ""]

\* --------------------------------------------------------- ItemActionService
\* loadItems and deleteItem up to the call: setLoading(true), clearError()
ItemAction_begin(st) == ItemState_clearError(ItemState_setLoading(st, TRUE))

\* loadItems' subscriber, then finalize
ItemAction_itemsLoaded(st, apiItems) ==
    ItemState_setLoading(
        ItemState_setItems(st, [i \in 1..Len(apiItems) |-> transformApiItemToItem(apiItems[i])]),
        FALSE)

\* deleteItem after the call: catchError sets the error and emits null, the
\* subscriber's next runs for a success and for that null, then finalize
ItemAction_deleted(st, id, ok) ==
    LET st1 == IF ok THEN st ELSE ItemState_setError(st, "Item not found")
    IN  ItemState_setLoading(ItemState_removeItem(st1, id), FALSE)

\* selectItem(itemId): items().find(i => i.id === itemId) || null
ItemAction_selectItem(st, itemId) ==
    LET found == {i \in 1..Len(st.items) : st.items[i].id = itemId}
    IN  ItemState_selectItem(st, IF found = {} THEN NoSelection
                                 ELSE st.items[CHOOSE i \in found : \A j \in found : i <= j])

\* --------------------------------------------- requests issued, not answered
\* k: the request and the callback awaiting it; id, rec, list, run: what the
\* callback's closure holds; ok: the answer is a success
Task(k, id, rec, list, run, ok) ==
    [k |-> k, id |-> id, rec |-> rec, list |-> list, run |-> run, ok |-> ok]

\* a storage request is issued: it completes after those issued before it
Enqueue(s, task) == [s EXCEPT !.storageQ = Append(@, task)]

\* a remote call is issued: its answer arrives later
Call(s, task) ==
    [s EXCEPT !.inflight = @ (+) SetToBag({task}), !.calls = @ + 1]

\* a remote call is issued and answered at once (throwError)
CallThrown(s) == [s EXCEPT !.calls = @ + 1]

\* -------------------------------------------------------- AuditActionService
updatePendingCount(s) == Enqueue(s, Task("getPendingItems/count", 0, NoRecord, <<>>, 0, TRUE))

loadFromStorage(s) == Enqueue(s, Task("getAllItems/load", 0, NoRecord, <<>>, 0, TRUE))

loadAudits(s) == loadFromStorage(clearError(setLoading(s, TRUE)))

\* finalize(...) of backgroundSyncFromServer, syncCreateToServer, syncDeleteToServer
finalizeSync(s) ==
    updatePendingCount(setCurrentOperation(setLoading(s, FALSE), "null", 0))

\* serverAudits.map(audit => saveItem(audit, 'synced')): one request per record;
\* Promise.all(...).then runs with the last of them
RECURSIVE EnqueueSaves(_, _, _, _)
EnqueueSaves(s, list, i, k) ==
    IF i > Len(list) THEN s
    ELSE EnqueueSaves(
            Enqueue(s, Task(IF i = Len(list) THEN k ELSE "saveItem", 0, list[i],
                            IF i = Len(list) THEN list ELSE <<>>, 0, TRUE)),
            list, i + 1, k)

\* loadFromServerWithFallback, up to the remote call
loadFromServerWithFallback(s, fail) ==
    Call(s, Task("getAudits/serverLoad", 0, NoRecord,
                 IF fail THEN <<>> ELSE s.mockAudits, 0, ~fail))

\* backgroundSyncFromServer, up to the remote call
backgroundSyncFromServer(s, fail) ==
    LET s1 == setCurrentOperation(setSyncStatus(s, "syncing"), "fetch", 0)
    IN  Call(s1, Task("getAudits/background", 0, NoRecord,
                      IF fail THEN <<>> ELSE s.mockAudits, 0, ~fail))

\* loadedFromStorage reconciling in the background whatever the network status
loadedFromStorageAlwaysSyncing(s, offlineItems, fail) ==
    IF Len(offlineItems) = 0 /\ s.isOnline
    THEN loadFromServerWithFallback(s, fail)
    ELSE LET s1 == updatePendingCount(setAudits(s, transformApiAuditsToAudits(offlineItems)))
         IN  backgroundSyncFromServer(s1, fail)

\* loadFromStorage's switchMap callback, given what getAllItems returned
loadedFromStorage(s, offlineItems, fail) ==
    IF Len(offlineItems) = 0 /\ s.isOnline
    THEN loadFromServerWithFallback(s, fail)
    ELSE LET s1 == updatePendingCount(setAudits(s, transformApiAuditsToAudits(offlineItems)))
         IN  IF s.isOnline THEN backgroundSyncFromServer(s1, fail)
             ELSE setLoading(s1, FALSE)

\* serverLoaded without its setAudits
serverLoadedWithoutPublishing(s, task) ==
    IF task.ok
    THEN IF Len(task.list) = 0 THEN setLoading(s, FALSE)
         ELSE EnqueueSaves(s, task.list, 1, "saveItem/serverLoad")
    ELSE setLoading(setError(s, <<"Failed to load audit records from server">>), FALSE)

\* loadFromServerWithFallback's callbacks, given the remote's answer
serverLoaded(s, task) ==
    IF task.ok
    THEN LET s1 == setAudits(s, transformApiAuditsToAudits(task.list))
         IN  IF Len(task.list) = 0 THEN setLoading(s1, FALSE)
             ELSE EnqueueSaves(s1, task.list, 1, "saveItem/serverLoad")
    ELSE setLoading(setError(s, <<"Failed to load audit records from server">>), FALSE)

\* backgroundSyncFromServer's Promise.all(...).then callback and finalize
backgroundSaved(s, serverAudits) ==
    finalizeSync(setSyncStatus(setAudits(s, transformApiAuditsToAudits(serverAudits)),
                               "success"))

\* backgroundFetched handing the [] of its catchError to the view
backgroundFetchedClearingView(s, task) ==
    IF task.ok
    THEN IF Len(task.list) = 0 THEN backgroundSaved(s, <<>>)
         ELSE EnqueueSaves(s, task.list, 1, "saveItem/background")
    ELSE finalizeSync(setAudits(setSyncError(s, "Failed to sync with server"), <<>>))

\* backgroundSyncFromServer's callbacks, given the remote's answer
backgroundFetched(s, task) ==
    IF task.ok
    THEN IF Len(task.list) = 0 THEN backgroundSaved(s, <<>>)
         ELSE EnqueueSaves(s, task.list, 1, "saveItem/background")
    ELSE finalizeSync(setSyncError(s, "Failed to sync with server"))

\* createAudit, up to the storage request
createAudit(s, request) ==
    LET validationErrors == validateAuditData(request)
        optimisticAudit == ApiRecord(LocalId(s.nextLocal + 1), request, 0)
    IN  IF Len(validationErrors) > 0 THEN setError(s, validationErrors)
        ELSE Enqueue([clearError(setLoading(s, TRUE)) EXCEPT !.nextLocal = @ + 1],
                     Task("saveItem/create", optimisticAudit.ExternalId, optimisticAudit,
                          <<>>, 0, TRUE))

\* syncCreateToServer, up to the remote call
syncCreateToServer(s, optimisticAudit, apiRequest, fail) ==
    LET s1 == setCurrentOperation(setSyncStatus(s, "syncing"), "create",
                                  optimisticAudit.ExternalId)
        serverAudit == apiCreated(s.mockAudits, apiRequest)
    IN  IF fail
        THEN Call(s1, Task("createAudit/syncCreate", optimisticAudit.ExternalId, NoRecord,
                           <<>>, 0, FALSE))
        ELSE IF validateCreateRequest(apiRequest) # ""
        THEN finalizeSync(setSyncError(CallThrown(s1), "Failed to sync create"))
        ELSE Call([s1 EXCEPT !.mockAudits = Append(@, serverAudit),
                             !.created = @ (+) SetToBag({optimisticAudit.ExternalId})],
                  Task("createAudit/syncCreate", optimisticAudit.ExternalId, serverAudit,
                       <<>>, 0, TRUE))

\* createSaved without its test of the network status
createSavedAlwaysSyncing(s, optimisticAudit, fail) ==
    LET savedAudit == OfflineItem(optimisticAudit, "pending")
        s1 == updatePendingCount(addAudit(s, transformApiAuditToAudit(savedAudit)))
    IN  syncCreateToServer(s1, optimisticAudit,
                           transformCreateRequestToApiRequest(optimisticAudit), fail)

\* createAudit's switchMap callback, the optimistic record saved as pending
createSaved(s, optimisticAudit, fail) ==
    LET savedAudit == OfflineItem(optimisticAudit, "pending")
        s1 == updatePendingCount(addAudit(s, transformApiAuditToAudit(savedAudit)))
    IN  IF s.isOnline
        THEN syncCreateToServer(s1, optimisticAudit,
                                transformCreateRequestToApiRequest(optimisticAudit), fail)
        ELSE setLoading(s1, FALSE)

\* syncCreateToServer's callbacks, given the remote's answer
syncCreateAnswered(s, task) ==
    IF task.ok
    THEN Enqueue(s, Task("removeItem/syncCreate", task.id, task.rec, <<>>, 0, TRUE))
    ELSE finalizeSync(setSyncError(s, "Failed to sync create"))

\* syncCreateToServer, the optimistic record removed from storage
syncCreateRemoved(s, task) ==
    Enqueue(s, Task("saveItem/syncCreate", task.id, task.rec, <<>>, 0, TRUE))

\* syncCreateToServer, the server's record saved as synced; then finalize
syncCreateSaved(s, serverAudit) ==
    finalizeSync(setSyncStatus(stateUpdateAudit(s, transformApiAuditToAudit(serverAudit)),
                               "success"))

\* updateAudit, up to the remote call
updateAudit(s, id, request, fail) ==
    LET validationErrors == validateAuditData(request)
        s1 == clearError(setLoading(s, TRUE))
        index == findIndex(s.mockAudits, id)
        updatedAudit == apiUpdated(s.mockAudits, id, request)
    IN  IF Len(validationErrors) > 0 THEN setError(s, validationErrors)
        ELSE IF fail
        THEN Call(s1, Task("updateAudit/update", id, NoRecord, <<>>, 0, FALSE))
        ELSE IF index = 0
        THEN setLoading(setError(CallThrown(s1), <<"Audit record not found">>), FALSE)
        ELSE Call([s1 EXCEPT !.mockAudits[index] = updatedAudit],
                  Task("updateAudit/update", id, updatedAudit, <<>>, 0, TRUE))

\* updateAudit's callbacks, given the remote's answer
updateAnswered(s, task) ==
    IF task.ok
    THEN setLoading(stateUpdateAudit(s, transformApiAuditToAudit(task.rec)), FALSE)
    ELSE setLoading(setError(s, <<"Failed to update audit record">>), FALSE)

\* deleteAudit, up to the storage request
deleteAudit(s, id) ==
    Enqueue(removeAudit(clearError(setLoading(s, TRUE)), id),
            Task("deleteItem/delete", id, NoRecord, <<>>, 0, TRUE))

\* syncDeleteToServer, up to the remote call
syncDeleteToServer(s, id, fail) ==
    LET s1 == setCurrentOperation(setSyncStatus(s, "syncing"), "delete", id)
        index == findIndex(s.mockAudits, id)
    IN  IF fail
        THEN Call(s1, Task("deleteAudit/syncDelete", id, NoRecord, <<>>, 0, FALSE))
        ELSE IF index = 0
        THEN finalizeSync(setSyncError(CallThrown(s1), "Failed to sync delete"))
        ELSE Call([s1 EXCEPT !.mockAudits = splice(@, index)],
                  Task("deleteAudit/syncDelete", id, NoRecord, <<>>, 0, TRUE))

\* deleteAudit's switchMap callback, the record marked deleted in storage
deleteMarked(s, id, fail) ==
    LET s1 == updatePendingCount(s)
    IN  IF s.isOnline THEN syncDeleteToServer(s1, id, fail)
        ELSE setLoading(s1, FALSE)

\* syncDeleteToServer's callbacks, given the remote's answer
syncDeleteAnswered(s, task) ==
    IF task.ok
    THEN Enqueue(s, Task("removeItem/syncDelete", task.id, NoRecord, <<>>, 0, TRUE))
    ELSE finalizeSync(setSyncError(s, "Failed to sync delete"))

\* syncDeleteToServer, the record removed from storage; then finalize
syncDeleteRemoved(s) == finalizeSync(setSyncStatus(s, "success"))

\* the error of a failed remote call: its status (0: none, a transport failure)
\* and the serverAudit it carries, if any
HttpError(status, serverAudit) == [status |-> status, serverAudit |-> serverAudit]

\* the error the answer of a failed call delivers: the mock's own errors are
\* thrown at call time, so this is a transport failure, or the 409 of a backend
\* that holds another version of the record (task.rec)
TaskError(task) ==
    IF task.rec = NoRecord THEN HttpError(0, NoRecord) ELSE HttpError(409, task.rec)

isConflictError(err) == err.serverAudit # NoRecord /\ err.status = 409

\* handleConflict, up to the storage request
handleConflict(s, localId, serverAudit) ==
    Enqueue(s, Task("getItem/conflict", localId, serverAudit, <<>>, 0, TRUE))

\* handleConflict's callback without markConflictResolved on the use-local side
conflictReadLeavingUnresolved(s, localId, localAudit, serverAudit, localModified, now) ==
    LET conflict == detectConflict(localAudit, serverAudit, localModified, now)
        s1 == addConflict(s, localId, conflict.localModified, conflict.serverModified)
    IN  IF localAudit = NoItem \/ conflict = NoConflict THEN s
        ELSE IF resolveConflict(conflict) = "use-server"
        THEN Enqueue(s1, Task("saveItem/conflict", localId, serverAudit, <<>>, 0, TRUE))
        ELSE s1

\* handleConflict's callback, given what getItem returned; localModified: the
\* record's _lastModified, now: the clock during detectConflict
conflictRead(s, localId, localAudit, serverAudit, localModified, now) ==
    LET conflict == detectConflict(localAudit, serverAudit, localModified, now)
        s1 == addConflict(s, localId, conflict.localModified, conflict.serverModified)
    IN  IF localAudit = NoItem \/ conflict = NoConflict THEN s
        ELSE IF resolveConflict(conflict) = "use-server"
        THEN Enqueue(s1, Task("saveItem/conflict", localId, serverAudit, <<>>, 0, TRUE))
        ELSE markConflictResolved(s1, localId)

\* handleConflict, the server's record saved as synced
conflictSaved(s, localId, serverAudit) ==
    markConflictResolved(stateUpdateAudit(s, transformApiAuditToAudit(serverAudit)),
                         localId)

\* handleSyncError: the failure is logged, a conflict is handled
handleSyncError(s, auditId, err) ==
    LET s1 == [s EXCEPT !.errorLog = @ \cup {auditId}]
    IN  IF isConflictError(err) THEN handleConflict(s1, auditId, err.serverAudit)
        ELSE s1

\* checkSyncCompletion testing processed against total - 1
checkSyncCompletionOneEarly(s, run) ==
    IF s.runs[run].processed = s.runs[run].total - 1
    THEN loadAudits(updatePendingCount(
            setCurrentOperation(setSyncStatus(s, "success"), "null", 0)))
    ELSE s

\* checkSyncCompletion(processed, total) of run `run`
checkSyncCompletion(s, run) ==
    IF s.runs[run].processed = s.runs[run].total
    THEN loadAudits(updatePendingCount(
            setCurrentOperation(setSyncStatus(s, "success"), "null", 0)))
    ELSE s

\* itemProcessed counting the item twice
itemProcessedTwice(s, run) ==
    checkSyncCompletion([s EXCEPT !.runs[run].processed = @ + 2], run)

\* processed++; this.checkSyncCompletion(processed, total)
itemProcessed(s, run) ==
    checkSyncCompletion([s EXCEPT !.runs[run].processed = @ + 1], run)

\* handleSyncSuccess, up to the storage request
handleSyncSuccess(s, localId, serverAudit) ==
    IF StartsWithLocal(localId)
    THEN Enqueue(s, Task("removeItem/syncSuccess", localId, serverAudit, <<>>, 0, TRUE))
    ELSE Enqueue(s, Task("markAsSynced/syncSuccess", localId, serverAudit, <<>>, 0, TRUE))

\* handleSyncSuccess, the local record removed from storage
syncSuccessRemoved(s, task) ==
    Enqueue(s, Task("saveItem/syncSuccess", task.id, task.rec, <<>>, 0, TRUE))

\* handleSyncSuccess, the server's record stored as synced
syncSuccessStored(s, serverAudit) ==
    stateUpdateAudit(s, transformApiAuditToAudit(serverAudit))

\* one iteration of pendingItems.forEach: the remote call for a pending record
processPendingItem(s, audit, run, fail) ==
    LET apiRequest == transformCreateRequestToApiRequest(audit)
        id == audit.ExternalId
        serverAudit == apiCreated(s.mockAudits, apiRequest)
        index == findIndex(s.mockAudits, id)
        updatedAudit == apiUpdated(s.mockAudits, id, apiRequest)
    IN  IF StartsWithLocal(id)
        THEN IF fail
             THEN Call(s, Task("createAudit/manual", id, NoRecord, <<>>, run, FALSE))
             ELSE IF validateCreateRequest(apiRequest) # ""
             THEN itemProcessed(handleSyncError(CallThrown(s), id, HttpError(400, NoRecord)),
                                run)
             ELSE Call([s EXCEPT !.mockAudits = Append(@, serverAudit),
                                 !.created = @ (+) SetToBag({id})],
                       Task("createAudit/manual", id, serverAudit, <<>>, run, TRUE))
        ELSE IF fail
             THEN Call(s, Task("updateAudit/manual", id, NoRecord, <<>>, run, FALSE))
             ELSE IF index = 0
             THEN itemProcessed(handleSyncError(CallThrown(s), id, HttpError(404, NoRecord)),
                                run)
             ELSE Call([s EXCEPT !.mockAudits[index] = updatedAudit],
                       Task("updateAudit/manual", id, updatedAudit, <<>>, run, TRUE))

\* one iteration of deletedItems.forEach: the remote call for a deleted record
processDeletedItem(s, audit, run, fail) ==
    LET id == audit.ExternalId
        index == findIndex(s.mockAudits, id)
    IN  IF fail
        THEN Call(s, Task("deleteAudit/manual", id, NoRecord, <<>>, run, FALSE))
        ELSE IF index = 0
        THEN itemProcessed(handleSyncError(CallThrown(s), id, HttpError(404, NoRecord)), run)
        ELSE Call([s EXCEPT !.mockAudits = splice(@, index)],
                  Task("deleteAudit/manual", id, NoRecord, <<>>, run, TRUE))

\* the two forEach loops over items (pending first, then deleted), from item i on;
\* fails[i]: the i-th call fails in transport
RECURSIVE ProcessItems(_, _, _, _, _, _)
ProcessItems(s, pendingItems, deletedItems, i, run, fails) ==
    LET p == Len(pendingItems)
    IN  IF i > p + Len(deletedItems) THEN s
        ELSE ProcessItems(
                IF i <= p THEN processPendingItem(s, pendingItems[i], run, fails[i])
                ELSE processDeletedItem(s, deletedItems[i - p], run, fails[i]),
                pendingItems, deletedItems, i + 1, run, fails)

processPendingAudits(s, pendingItems, deletedItems, fails) ==
    LET total == Len(pendingItems) + Len(deletedItems)
        run == Len(s.runs) + 1
        s1 == [s EXCEPT !.runs = Append(@, [processed |-> 0, total |-> total])]
    IN  ProcessItems(s1, pendingItems, deletedItems, 1, run, fails)

\* syncToServer, up to the storage request
syncToServer(s) ==
    IF ~s.isOnline THEN setSyncError(s, "Cannot sync: offline")
    ELSE IF isSyncing(s) THEN s
    ELSE Enqueue(setCurrentOperation(setSyncStatus(s, "syncing"), "fetch", 0),
                 Task("getPendingItems/sync", 0, NoRecord, <<>>, 0, TRUE))

\* syncToServer's switchMap callback, given what getPendingItems returned
syncPendingRead(s, pendingItems) ==
    Enqueue(s, Task("getDeletedItems/sync", 0, NoRecord, pendingItems, 0, TRUE))

\* syncToServer's subscribe callback, given what getDeletedItems returned
syncDeletedRead(s, pendingItems, deletedItems, fails) ==
    IF Len(pendingItems) + Len(deletedItems) = 0
    THEN setCurrentOperation(setSyncStatus(s, "success"), "null", 0)
    ELSE processPendingAudits(s, pendingItems, deletedItems, fails)

\* processPendingAudits' next/error callbacks, given the remote's answer
manualAnswered(s, task) ==
    IF task.k = "deleteAudit/manual"
    THEN IF task.ok
         THEN Enqueue(s, Task("removeItem/manualDelete", task.id, NoRecord, <<>>,
                              task.run, TRUE))
         ELSE itemProcessed(handleSyncError(s, task.id, TaskError(task)), task.run)
    ELSE IF task.ok
         THEN itemProcessed(handleSyncSuccess(s, task.id, task.rec), task.run)
         ELSE itemProcessed(handleSyncError(s, task.id, TaskError(task)), task.run)

\* ----------------------------------------------------------------- actions
\* what a step leaves in ev: the action, the identifier and the record it was
\* about, whether it was given a success, the remote calls it issued
Ev(k, id, s) == [k |-> k, id |-> id, rec |-> NoRecord, ok |-> TRUE, calls |-> s.calls]

\* ... of a user's create or update with `request`
EvRequest(k, id, request, s) ==
    [k |-> k, id |-> id, rec |-> ApiRecord(id, request, 0), ok |-> TRUE, calls |-> s.calls]

\* ... of the callback of `task`
EvTask(k, task, s) ==
    [k |-> k, id |-> task.id, rec |-> task.rec, ok |-> task.ok, calls |-> s.calls]

\* the step's result becomes the next state
Apply(s, e) ==
    /\ store' = s.store
    /\ audits' = s.audits
    /\ loading' = s.loading
    /\ error' = s.error
    /\ syncStatus' = s.syncStatus
    /\ currentOperation' = s.currentOperation
    /\ currentItemId' = s.currentItemId
    /\ syncError' = s.syncError
    /\ pendingRecordsCount' = s.pendingRecordsCount
    /\ isOnline' = s.isOnline
    /\ mockAudits' = s.mockAudits
    /\ storageQ' = s.storageQ
    /\ inflight' = s.inflight
    /\ runs' = s.runs
    /\ errorLog' = s.errorLog
    /\ conflicts' = s.conflicts
    /\ nextLocal' = s.nextLocal
    /\ raced' = s.raced
    /\ created' = s.created
    /\ ev' = e
    /\ lastModified' = s.lastModified
    /\ lastSyncTime' = s.lastSyncTime
    /\ UNCHANGED <<db, itemApi, clock, itemState, itemCalls, probe>>

UserStep(s, e) == ops < MaxOps /\ ops' = ops + 1 /\ Apply(s, e)
Callback(s, e) == ops' = ops /\ Apply(s, e)

\* the requests that put a record: saveItem puts the one it is given, deleteItem
\* and markAsSynced the one they find
SaveRequests ==
    {"saveItem", "saveItem/serverLoad", "saveItem/background", "saveItem/create",
     "saveItem/syncCreate", "saveItem/syncSuccess", "saveItem/conflict"}
MarkRequests == {"deleteItem/delete", "markAsSynced/syncSuccess"}

Written(task, st) ==
    IF task.k \in SaveRequests THEN {task.rec.ExternalId}
    ELSE IF task.k \in MarkRequests /\ task.id \in DOMAIN st THEN {task.id}
    ELSE {}

\* the oldest storage request is of kind k, and the database is there to serve it
\* (waitForDB lets a request through once dbReady$ has emitted true)
Oldest(k) == db = "open" /\ storageQ # <<>> /\ Head(storageQ).k = k
\* ... and completes: the state its callback starts from
Completed(st) ==
    [Cur EXCEPT !.store = st, !.storageQ = Tail(@),
                !.lastModified = Stamp(@, st, Written(Head(storageQ), st), clock)]
\* the remote call `task` is answered: the state its callback starts from
Answered(task) == [Cur EXCEPT !.inflight = @ (-) SetToBag({task})]
Awaiting(kinds) == {task \in BagToSet(inflight) : task.k \in kinds}

ViewIds == {audits[i].externalId : i \in 1..Len(audits)}

\* the remote calls of manual syncs awaiting their answer
ManualCalls == Awaiting({"createAudit/manual", "updateAudit/manual", "deleteAudit/manual"})

\* -- the user, the platform
LoadAudits == LET s == loadAudits(Cur) IN UserStep(s, Ev("LoadAudits", 0, s))

CreateAudit(request) ==
    LET s == createAudit(Cur, request)
    IN  UserStep(s, EvRequest(IF s.storageQ = storageQ THEN "CreateRejected"
                              ELSE "CreateAudit", 0, request, s))

UpdateAudit(id, request) ==
    \E fail \in BOOLEAN :
        LET s == updateAudit(Cur, id, request, fail)
        IN  UserStep(s, EvRequest(IF s.loading = loading /\ s.calls = 0
                                  THEN "UpdateRejected" ELSE "UpdateAudit",
                                  id, request, s))

\* the remote creates in flight for the optimistic record id: its local identifier
\* and the identifier the remote gave it (0 if the call is failing)
CreatesInFlight(id) ==
    {[local |-> id, server |-> task.rec.ExternalId] :
        task \in {c \in Awaiting({"createAudit/syncCreate"}) : c.id = id}}

DeleteAudit(id) ==
    LET s == deleteAudit(Cur, id)
    IN  UserStep([s EXCEPT !.raced = @ \cup CreatesInFlight(id)], Ev("DeleteAudit", id, s))

SyncToServer == LET s == syncToServer(Cur) IN UserStep(s, Ev("SyncToServer", 0, s))

\* AuditActionService.reset(): this.stateService.reset()
reset(s) == stateReset(s)

Reset == LET s == reset(Cur) IN UserStep(s, Ev("Reset", 0, s))

\* SyncStateService.reset() called on the service itself
SyncStateReset == LET s == syncStateReset(Cur) IN UserStep(s, Ev("SyncStateReset", 0, s))

\* AuditActionService.clearSyncError()
ClearSyncError == LET s == clearSyncError(Cur) IN UserStep(s, Ev("ClearSyncError", 0, s))

\* window 'online' / 'offline'
NetworkChange ==
    LET s == [Cur EXCEPT !.isOnline = ~@] IN UserStep(s, Ev("NetworkChange", 0, s))

\* -- indexedDB.open answers
\* request.onsuccess: this.db = request.result; dbReady$.next(true)
DBOpened ==
    /\ db = "opening"
    /\ db' = "open"
    /\ ev' = [k |-> "DBOpened", id |-> 0, rec |-> NoRecord, ok |-> TRUE, calls |-> 0]
    /\ UNCHANGED <<store, audits, loading, error, syncStatus, currentOperation,
                   currentItemId, syncError, pendingRecordsCount, isOnline, mockAudits,
                   storageQ, inflight, runs, errorLog, conflicts, nextLocal, created, raced,
                   itemApi, clock, lastModified, lastSyncTime, itemState, itemCalls,
                   probe, ops>>

\* request.onerror: the promise is rejected, the constructor logs it; dbReady$
\* stays false
DBFailed ==
    /\ db = "opening"
    /\ db' = "failed"
    /\ ev' = [k |-> "DBFailed", id |-> 0, rec |-> NoRecord, ok |-> FALSE, calls |-> 0]
    /\ UNCHANGED <<store, audits, loading, error, syncStatus, currentOperation,
                   currentItemId, syncError, pendingRecordsCount, isOnline, mockAudits,
                   storageQ, inflight, runs, errorLog, conflicts, nextLocal, created, raced,
                   itemApi, clock, lastModified, lastSyncTime, itemState, itemCalls,
                   probe, ops>>

\* -- the pure services, called with any arguments; a result depends on nothing
\* but the arguments, so one call per run shows all there is
ProbeStep(p) ==
    /\ probe = NoProbe
    /\ probe' = p
    /\ UNCHANGED <<store, audits, loading, error, syncStatus, currentOperation,
                   currentItemId, syncError, pendingRecordsCount, isOnline, mockAudits,
                   storageQ, inflight, runs, errorLog, conflicts, db, nextLocal, created,
                   raced, itemApi, clock, lastModified, lastSyncTime, itemState,
                   itemCalls, ops, ev>>

\* records to compare: one, those unlike it in one business field, those unlike it
\* in a system field
ProbeRecords ==
    LET a == ApiRecord(1, GoodRequest("c1"), 1)
    IN  {a, [a EXCEPT !.SlotNumber = "B-002"], [a EXCEPT !.PrimaryBarcode = BadBarcode],
         [a EXCEPT !.WarehouseLogistics = "Outbound"], [a EXCEPT !.Comments = "c2"],
         [a EXCEPT !.Auditors = "Jane"], [a EXCEPT !.WarehouseLocation = "WH-B"],
         [a EXCEPT !.ExternalId = LocalId(1)], [a EXCEPT !.Synced = 0]}

Times == 0..MaxTime

DetectConflict ==
    \E localAudit \in ProbeRecords, serverAudit \in ProbeRecords,
       localModified \in Times, now \in Times :
        ProbeStep([fn |-> "detectConflict", localAudit |-> localAudit,
                   serverAudit |-> serverAudit, localModified |-> localModified,
                   now |-> now,
                   result |-> detectConflict(localAudit, serverAudit, localModified, now)])

ResolveConflict ==
    \E localAudit \in ProbeRecords, localModified \in Times, serverModified \in Times :
        LET conflict == AuditConflictData(localAudit, SeedAudits[1], localModified,
                                          serverModified)
        IN  ProbeStep([fn |-> "resolveConflict", conflict |-> conflict,
                       result |-> resolveConflict(conflict)])

GetSyncStrategy ==
    \E info \in {updateNetworkInfo(isOnline, c) : c \in Connections \cup {NoConnection}}
                \cup {simulateSlowConnection} :
        ProbeStep([fn |-> "getSyncStrategy", info |-> info,
                   result |-> getSyncStrategy(info)])

\* -- the record store driven directly: one operation, one transaction
\* the operations that put a record
StoreWrites == {"saveItem", "updateItem", "deleteItem", "markAsSynced"}

StoreStep(st, p) ==
    /\ db = "open" /\ ops < MaxStoreOps
    /\ ops' = ops + 1
    /\ store' = st
    /\ lastModified' = Stamp(lastModified, st,
                             IF p.fn \in StoreWrites /\ p.id \in DOMAIN st THEN {p.id} ELSE {},
                             clock)
    /\ probe' = p
    /\ UNCHANGED <<audits, loading, error, syncStatus, currentOperation, currentItemId,
                   syncError, pendingRecordsCount, isOnline, mockAudits, storageQ,
                   inflight, runs, errorLog, conflicts, db, nextLocal, created, raced,
                   itemApi, clock, lastSyncTime, itemState, itemCalls, ev>>

\* the identifiers and the records the store is driven with
StoreIds == {1, LocalId(1)}
StoreRecords == {ApiRecord(id, GoodRequest(k), 0) : id \in StoreIds, k \in {"c1", "c2"}}
StoreUpdates == {[Comments |-> "c3"], [SlotNumber |-> "B-002", Synced |-> 1]}

SaveItem ==
    \E a \in StoreRecords, status \in {"synced", "pending"} :
        StoreStep(saveItem(store, a, status), [fn |-> "saveItem", id |-> a.ExternalId])

UpdateItem ==
    \E id \in StoreIds, updates \in StoreUpdates, status \in {"synced", "pending"} :
        StoreStep(updateItem(store, id, updates, status), [fn |-> "updateItem", id |-> id])

DeleteItem ==
    \E id \in StoreIds : StoreStep(deleteItem(store, id), [fn |-> "deleteItem", id |-> id])

MarkAsSynced ==
    \E id \in StoreIds :
        StoreStep(markAsSynced(store, id), [fn |-> "markAsSynced", id |-> id])

RemoveItem ==
    \E id \in StoreIds : StoreStep(removeItem(store, id), [fn |-> "removeItem", id |-> id])

GetAllItems == StoreStep(store, [fn |-> "getAllItems", result |-> getAllItems(store)])

GetItem ==
    \E id \in StoreIds :
        StoreStep(store, [fn |-> "getItem", id |-> id, result |-> getItem(store, id)])

\* -- ItemApiService called, and its callers writing to what they were given
ItemStep(x, k) ==
    /\ ops < MaxItemOps
    /\ ops' = ops + 1
    /\ itemApi' = x
    /\ ev' = [k |-> k, id |-> 0, rec |-> NoRecord, ok |-> TRUE, calls |-> 1]
    /\ UNCHANGED <<store, audits, loading, error, syncStatus, currentOperation,
                   currentItemId, syncError, pendingRecordsCount, isOnline, mockAudits,
                   storageQ, inflight, runs, errorLog, conflicts, db, nextLocal, created,
                   raced, clock, lastModified, lastSyncTime, itemState, itemCalls,
                   probe>>

ItemNames == {"Laptop", "Modified Name"}

GetItems == ItemStep(ItemApi_getItems(itemApi), "GetItems")

GetOneItem == \E id \in 1..3 : ItemStep(ItemApi_getItem(itemApi, id), "GetOneItem")

CreateItem == ItemStep(ItemApi_createItem(itemApi, "Wireless Mouse", 25), "CreateItem")

UpdateOneItem ==
    \E id \in 1..3, name \in ItemNames :
        ItemStep(ItemApi_updateItem(itemApi, id, name), "UpdateOneItem")

DeleteOneItem == \E id \in 1..3 : ItemStep(ItemApi_deleteItem(itemApi, id), "DeleteOneItem")

\* the subscriber of getItems writes to a record of the array it was given
WriteListed ==
    \E h \in {g \in itemApi.handed : g.from = "getItems"}, name \in ItemNames :
        \E i \in 1..Len(h.refs) :
            ItemStep(WriteName(itemApi, h.refs[i], name), "WriteListed")

\* the subscriber of getItem, createItem or updateItem writes to the record it was given
WriteCopy ==
    \E h \in {g \in itemApi.handed : g.from # "getItems"}, name \in ItemNames :
        ItemStep(WriteName(itemApi, h.refs[1], name), "WriteCopy")

\* -- ItemActionService and ItemStateService called, and ItemApiService answering
ItemStateStep(user, x, st, calls, e) ==
    /\ user => ops < MaxItemOps
    /\ ops' = IF user THEN ops + 1 ELSE ops
    /\ itemApi' = x
    /\ itemState' = st
    /\ itemCalls' = calls
    /\ ev' = e
    /\ UNCHANGED <<store, audits, loading, error, syncStatus, currentOperation,
                   currentItemId, syncError, pendingRecordsCount, isOnline, mockAudits,
                   storageQ, inflight, runs, errorLog, conflicts, db, nextLocal, created,
                   raced, clock, lastModified, lastSyncTime, probe>>

ItemEv(k, id, ok) == [k |-> k, id |-> id, rec |-> NoRecord, ok |-> ok, calls |-> 0]

ItemIds == 1..3

\* the Items ItemStateService is driven with
Items == {[id |-> id, name |-> "Modified Name", quantity |-> 1] : id \in ItemIds}

LoadItems ==
    ItemStateStep(TRUE, ItemApi_getItems(itemApi), ItemAction_begin(itemState),
                  itemCalls (+) SetToBag({[k |-> "getItems", id |-> 0,
                                           refs |-> itemApi.mockItems]}),
                  ItemEv("LoadItems", 0, TRUE))

ItemsLoaded ==
    \E call \in {c \in BagToSet(itemCalls) : c.k = "getItems"} :
        ItemStateStep(FALSE, itemApi,
                      ItemAction_itemsLoaded(itemState,
                          [i \in 1..Len(call.refs) |-> itemApi.heap[call.refs[i]]]),
                      itemCalls (-) SetToBag({call}),
                      ItemEv("ItemsLoaded", 0, TRUE))

\* ItemActionService.deleteItem(id): the mock's 404 is thrown inside the call
DeleteItemAction ==
    \E id \in ItemIds :
        IF ItemIndex(itemApi, id) = 0
        THEN ItemStateStep(TRUE, itemApi,
                           ItemAction_deleted(ItemAction_begin(itemState), id, FALSE),
                           itemCalls, ItemEv("DeleteItemAction", id, FALSE))
        ELSE ItemStateStep(TRUE, ItemApi_deleteItem(itemApi, id), ItemAction_begin(itemState),
                           itemCalls (+) SetToBag({[k |-> "deleteItem", id |-> id,
                                                    refs |-> <<>>]}),
                           ItemEv("DeleteItemAction", id, TRUE))

ItemDeleted ==
    \E call \in {c \in BagToSet(itemCalls) : c.k = "deleteItem"} :
        ItemStateStep(FALSE, itemApi, ItemAction_deleted(itemState, call.id, TRUE),
                      itemCalls (-) SetToBag({call}), ItemEv("ItemDeleted", call.id, TRUE))

SelectItem ==
    \E id \in ItemIds :
        ItemStateStep(TRUE, itemApi, ItemAction_selectItem(itemState, id), itemCalls,
                      ItemEv("SelectItem", id, TRUE))

\* ItemStateService.updateItem and removeItem called directly
StateUpdateItem ==
    \E item \in Items :
        ItemStateStep(TRUE, itemApi, ItemState_updateItem(itemState, item), itemCalls,
                      [ItemEv("StateUpdateItem", item.id, TRUE) EXCEPT !.rec = item])

StateRemoveItem ==
    \E id \in ItemIds :
        ItemStateStep(TRUE, itemApi, ItemState_removeItem(itemState, id), itemCalls,
                      ItemEv("StateRemoveItem", id, TRUE))

\* -- SyncStateService's conflict list driven directly
ConflictStep(s, e) == ops < MaxConflictOps /\ ops' = ops + 1 /\ Apply(s, e)

ConflictIds == {1, LocalId(1)}

AddConflict ==
    \E itemId \in ConflictIds, localModified \in Times, serverModified \in Times :
        LET s == addConflict(Cur, itemId, localModified, serverModified)
        IN  ConflictStep(s, [k |-> "AddConflict", id |-> itemId,
                             rec |-> ConflictInfo(itemId, localModified, serverModified, FALSE),
                             ok |-> \E i \in 1..Len(conflicts) : conflicts[i].itemId = itemId,
                             calls |-> 0])

MarkConflictResolved ==
    \E itemId \in ConflictIds :
        LET s == markConflictResolved(Cur, itemId)
        IN  ConflictStep(s, Ev("MarkConflictResolved", itemId, s))

RemoveConflict ==
    \E itemId \in ConflictIds :
        LET s == removeConflict(Cur, itemId)
        IN  ConflictStep(s, Ev("RemoveConflict", itemId, s))

ClearConflicts ==
    LET s == clearConflicts(Cur) IN ConflictStep(s, Ev("ClearConflicts", 0, s))

\* -- storage requests completing
StorageLoaded ==
    /\ Oldest("getAllItems/load")
    /\ \E fail \in BOOLEAN :
        LET s == loadedFromStorage(Completed(store), getAllItems(store), fail)
        IN  Callback(s, Ev("StorageLoaded", 0, s))

PendingCounted ==
    /\ Oldest("getPendingItems/count")
    /\ LET s == setPendingRecordsCount(Completed(store), Len(getPendingItems(store)))
       IN  Callback(s, Ev("PendingCounted", 0, s))

\* a save of Promise.all other than the last
ItemSaved ==
    /\ Oldest("saveItem")
    /\ LET s == Completed(saveItem(store, Head(storageQ).rec, "synced"))
       IN  Callback(s, EvTask("ItemSaved", Head(storageQ), s))

ServerLoadSaved ==
    /\ Oldest("saveItem/serverLoad")
    /\ LET s == setLoading(Completed(saveItem(store, Head(storageQ).rec, "synced")), FALSE)
       IN  Callback(s, Ev("ServerLoadSaved", 0, s))

BackgroundSaved ==
    /\ Oldest("saveItem/background")
    /\ LET s == backgroundSaved(Completed(saveItem(store, Head(storageQ).rec, "synced")),
                                Head(storageQ).list)
       IN  Callback(s, Ev("BackgroundSaved", 0, s))

CreateSaved ==
    /\ Oldest("saveItem/create")
    /\ \E fail \in BOOLEAN :
        LET s == createSaved(Completed(saveItem(store, Head(storageQ).rec, "pending")),
                             Head(storageQ).rec, fail)
        IN  Callback(s, EvTask("CreateSaved", Head(storageQ), s))

SyncCreateRemoved ==
    /\ Oldest("removeItem/syncCreate")
    /\ LET s == syncCreateRemoved(Completed(removeItem(store, Head(storageQ).id)),
                                  Head(storageQ))
       IN  Callback(s, EvTask("SyncCreateRemoved", Head(storageQ), s))

SyncCreateSaved ==
    /\ Oldest("saveItem/syncCreate")
    /\ LET s == syncCreateSaved(Completed(saveItem(store, Head(storageQ).rec, "synced")),
                                Head(storageQ).rec)
       IN  Callback(s, EvTask("SyncCreateSaved", Head(storageQ), s))

DeleteMarked ==
    /\ Oldest("deleteItem/delete")
    /\ \E fail \in BOOLEAN :
        LET s == deleteMarked(Completed(deleteItem(store, Head(storageQ).id)),
                              Head(storageQ).id, fail)
        IN  Callback(s, EvTask("DeleteMarked", Head(storageQ), s))

SyncDeleteRemoved ==
    /\ Oldest("removeItem/syncDelete")
    /\ LET s == syncDeleteRemoved(Completed(removeItem(store, Head(storageQ).id)))
       IN  Callback(s, EvTask("SyncDeleteRemoved", Head(storageQ), s))

SyncPendingRead ==
    /\ Oldest("getPendingItems/sync")
    /\ LET s == syncPendingRead(Completed(store), getPendingItems(store))
       IN  Callback(s, Ev("SyncPendingRead", 0, s))

SyncDeletedRead ==
    /\ Oldest("getDeletedItems/sync")
    /\ LET pendingItems == Head(storageQ).list
           deletedItems == getDeletedItems(store)
       IN  \E fails \in [1..(Len(pendingItems) + Len(deletedItems)) -> BOOLEAN] :
            LET s == syncDeletedRead(Completed(store), pendingItems, deletedItems, fails)
            IN  Callback(s, Ev("SyncDeletedRead", 0, s))

ManualDeleteRemoved ==
    /\ Oldest("removeItem/manualDelete")
    /\ LET s == itemProcessed(Completed(removeItem(store, Head(storageQ).id)),
                              Head(storageQ).run)
       IN  Callback(s, EvTask("ManualDeleteRemoved", Head(storageQ), s))

SyncSuccessRemoved ==
    /\ Oldest("removeItem/syncSuccess")
    /\ LET s == syncSuccessRemoved(Completed(removeItem(store, Head(storageQ).id)),
                                   Head(storageQ))
       IN  Callback(s, EvTask("SyncSuccessRemoved", Head(storageQ), s))

SyncSuccessSaved ==
    /\ Oldest("saveItem/syncSuccess")
    /\ LET s == syncSuccessStored(Completed(saveItem(store, Head(storageQ).rec, "synced")),
                                  Head(storageQ).rec)
       IN  Callback(s, EvTask("SyncSuccessSaved", Head(storageQ), s))

SyncSuccessMarked ==
    /\ Oldest("markAsSynced/syncSuccess")
    /\ LET s == syncSuccessStored(Completed(markAsSynced(store, Head(storageQ).id)),
                                  Head(storageQ).rec)
       IN  Callback(s, EvTask("SyncSuccessMarked", Head(storageQ), s))

\* -- remote calls answered
ServerLoadAnswered ==
    \E task \in Awaiting({"getAudits/serverLoad"}) :
        LET s == serverLoaded(Answered(task), task)
        IN  Callback(s, EvTask("ServerLoadAnswered", task, s))

BackgroundAnswered ==
    \E task \in Awaiting({"getAudits/background"}) :
        LET s == backgroundFetched(Answered(task), task)
        IN  Callback(s, EvTask("BackgroundAnswered", task, s))

SyncCreateAnswered ==
    \E task \in Awaiting({"createAudit/syncCreate"}) :
        LET s == syncCreateAnswered(Answered(task), task)
        IN  Callback(s, EvTask("SyncCreateAnswered", task, s))

UpdateAnswered ==
    \E task \in Awaiting({"updateAudit/update"}) :
        LET s == updateAnswered(Answered(task), task)
        IN  Callback(s, EvTask("UpdateAnswered", task, s))

SyncDeleteAnswered ==
    \E task \in Awaiting({"deleteAudit/syncDelete"}) :
        LET s == syncDeleteAnswered(Answered(task), task)
        IN  Callback(s, EvTask("SyncDeleteAnswered", task, s))

ManualAnswered ==
    \E task \in Awaiting({"createAudit/manual", "updateAudit/manual", "deleteAudit/manual"}) :
        LET s == manualAnswered(Answered(task), task)
        IN  Callback(s, EvTask("ManualAnswered", task, s))

\* the remote's answer to a failed call of a manual sync is a 409 carrying the
\* version a backend holds of the record; the mock remote has no such answer
ConflictVersions(id) ==
    {ApiRecord(IF StartsWithLocal(id) THEN NumSeed + 1 ELSE id, GoodRequest(k), 1) :
        k \in {"c2", "c3"}}

ManualConflictAnswered ==
    \E task \in {c \in ManualCalls : ~c.ok} :
        \E serverAudit \in ConflictVersions(task.id) :
            LET answer == [task EXCEPT !.rec = serverAudit]
                s == manualAnswered(Answered(task), answer)
            IN  Callback(s, EvTask("ManualConflictAnswered", answer, s))

\* handleConflict's storage requests completing: getItem, then saveItem
ConflictStored ==
    /\ db = "open" /\ storageQ # <<>>
    /\ Head(storageQ).k \in {"getItem/conflict", "saveItem/conflict"}
    /\ LET task == Head(storageQ)
       IN  IF task.k = "getItem/conflict"
           THEN \E localModified \in Times, now \in Times :
                   LET s == conflictRead(Completed(store), task.id, getItem(store, task.id),
                                         task.rec, localModified, now)
                   IN  Callback(s, [k |-> "ConflictRead", id |-> task.id, rec |-> task.rec,
                                    ok |-> localModified > now, calls |-> s.calls])
           ELSE LET s == conflictSaved(Completed(saveItem(store, task.rec, "synced")),
                                       task.id, task.rec)
                IN  Callback(s, EvTask("ConflictSaved", task, s))

\* Date.now() has grown
Tick ==
    /\ clock < MaxTime
    /\ clock' = clock + 1
    /\ UNCHANGED <<store, audits, loading, error, syncStatus, currentOperation,
                   currentItemId, syncError, pendingRecordsCount, isOnline, mockAudits,
                   storageQ, inflight, runs, errorLog, conflicts, db, nextLocal, created,
                   raced, itemApi, lastModified, lastSyncTime, itemState, itemCalls,
                   probe, ops, ev>>

\* handleConflict's getItem completing: localAudit._lastModified is what the
\* record's last write stamped, new Date().getTime() what the clock gives now
ConflictRead ==
    /\ Oldest("getItem/conflict")
    /\ LET task == Head(storageQ)
           localModified == IF task.id \in DOMAIN store THEN lastModified[task.id] ELSE 0
           s == conflictRead(Completed(store), task.id, getItem(store, task.id),
                             task.rec, localModified, clock)
       IN  Callback(s, [k |-> "ConflictRead", id |-> task.id, rec |-> task.rec,
                        ok |-> localModified > clock, calls |-> s.calls])

\* a storage request of a manual sync fails (request.onerror): its observable
\* errors, and the subscriber has no error callback
SyncStorageFailed ==
    /\ db = "open" /\ storageQ # <<>>
    /\ Head(storageQ).k \in {"getPendingItems/sync", "getDeletedItems/sync",
                              "removeItem/manualDelete"}
    /\ LET s == Completed(store)
       IN  Callback(s, [k |-> "SyncStorageFailed", id |-> Head(storageQ).id,
                        rec |-> NoRecord, ok |-> FALSE, calls |-> 0])

\* the callbacks of load, create, update and delete
Callbacks ==
    \/ StorageLoaded \/ PendingCounted \/ ItemSaved \/ ServerLoadSaved \/ BackgroundSaved
    \/ CreateSaved \/ SyncCreateRemoved \/ SyncCreateSaved \/ DeleteMarked
    \/ SyncDeleteRemoved
    \/ ServerLoadAnswered \/ BackgroundAnswered \/ SyncCreateAnswered \/ UpdateAnswered
    \/ SyncDeleteAnswered

\* the callbacks of a manual sync and of the load that ends it
SyncCallbacks ==
    \/ SyncPendingRead \/ SyncDeletedRead \/ ManualAnswered \/ ManualDeleteRemoved
    \/ SyncSuccessRemoved \/ SyncSuccessSaved
    \/ StorageLoaded \/ PendingCounted \/ ItemSaved \/ ServerLoadSaved \/ BackgroundSaved
    \/ ServerLoadAnswered \/ BackgroundAnswered

\* ---------------------------------------------------------- specifications
\* the storage a session starts with is what earlier sessions left: nothing, or
\* the remote's records, each synced or marked deleted, with or without a record
\* created offline and still pending
PendingLeft(id) == OfflineItem(ApiRecord(id, GoodRequest("c2"), 0), "pending")
StoreOf(statusOf, pendingLocals) ==
    [id \in (1..NumSeed) \cup {LocalId(k) : k \in 1..pendingLocals} |->
        IF StartsWithLocal(id) THEN PendingLeft(id)
        ELSE OfflineItem(SeedAudits[id], statusOf[id])]
EmptyStore == [id \in {} |-> NoRecord]
InitialStores ==
    {EmptyStore} \cup
    {StoreOf(statusOf, n) : statusOf \in [1..NumSeed -> {"synced", "deleted"}],
                            n \in 0..MaxInitPending}
LocalsIn(st) == Cardinality({id \in DOMAIN st : StartsWithLocal(id)})

\* ... or the remote's records and a record created offline and deleted offline,
\* which deleteItem left marked deleted under its local identifier
DeletedLeft(id) == OfflineItem(ApiRecord(id, GoodRequest("c2"), 0), "deleted")
StoresWithDeletedLocal ==
    {Put(StoreOf(statusOf, 0), DeletedLeft(LocalId(1))) :
        statusOf \in [1..NumSeed -> {"synced", "deleted"}]}

\* the session once the services are constructed, the database in state dbState,
\* the store one of stores
StartedFrom(dbState, stores) ==
    /\ store \in stores
    /\ db = dbState
    /\ raced = {}
    /\ created = EmptyBag
    /\ probe = NoProbe
    /\ itemApi = ItemApiService
    /\ itemState = ItemStateService
    /\ itemCalls = EmptyBag
    /\ clock = 0
    /\ lastModified = [id \in DOMAIN store |-> 0]
    /\ lastSyncTime = NoTime
    /\ audits = <<>>
    /\ loading = FALSE
    /\ error = NoError
    /\ syncStatus = "idle"
    /\ currentOperation = "null"
    /\ currentItemId = 0
    /\ syncError = NoSyncError
    /\ pendingRecordsCount = 0
    /\ isOnline \in BOOLEAN
    /\ mockAudits = SeedAudits
    /\ storageQ = <<>>
    /\ inflight = EmptyBag
    /\ runs = <<>>
    /\ errorLog = {}
    /\ conflicts = <<>>
    /\ nextLocal = LocalsIn(store)
    /\ ops = 0
    /\ ev = [k |-> "Init", id |-> 0, rec |-> NoRecord, ok |-> TRUE, calls |-> 0]

Started(dbState) == StartedFrom(dbState, InitialStores)

\* the database was opened before the first operation
Init == Started("open")

\* the first operation may come before indexedDB.open has answered
InitOpening == Started("opening")

\* the orchestrator's optimistic operations under any interleaving
Next ==
    \/ LoadAudits
    \/ \E k \in Versions : CreateAudit(GoodRequest(k))
    \/ \E id \in ViewIds, k \in Versions : UpdateAudit(id, GoodRequest(k))
    \/ \E id \in ViewIds : DeleteAudit(id)
    \/ NetworkChange
    \/ Callbacks

Spec == Init /\ [][Next]_vars

\* manual syncs of what earlier sessions left, one after another
NextSync == (ops < MaxSyncs /\ SyncToServer) \/ SyncCallbacks

SpecSync == Init /\ [][NextSync]_vars

\* the callbacks of load and create
FormCallbacks ==
    \/ StorageLoaded \/ PendingCounted \/ ItemSaved \/ ServerLoadSaved \/ BackgroundSaved
    \/ ServerLoadAnswered \/ BackgroundAnswered
    \/ CreateSaved \/ SyncCreateAnswered \/ SyncCreateRemoved \/ SyncCreateSaved

\* create forms submitted with whatever the user typed and update forms submitted
\* with a required field blank, among loads
NextForm ==
    \/ LoadAudits
    \/ \E request \in AllRequests : CreateAudit(request)
    \/ \E id \in ViewIds, request \in BlankRequests : UpdateAudit(id, request)
    \/ FormCallbacks

SpecForm == Init /\ [][NextForm]_vars

\* a storage request completes and a remote call is answered, sooner or later
SpecSyncFair == SpecSync /\ WF_vars(SyncCallbacks)

\* the callbacks of create, of a manual sync and of the load that ends it
SessionCallbacks ==
    \/ CreateSaved \/ SyncCreateAnswered \/ SyncCreateRemoved \/ SyncCreateSaved
    \/ SyncCallbacks

\* optimistic creates and manual syncs in one session, in any order
NextSession ==
    \/ \E k \in Versions : CreateAudit(GoodRequest(k))
    \/ SyncToServer
    \/ SessionCallbacks

SpecSession == Init /\ [][NextSession]_vars

\* loads and creates issued while indexedDB.open is still to answer, or after
NextStorage ==
    \/ DBOpened \/ DBFailed
    \/ LoadAudits
    \/ \E k \in Versions : CreateAudit(GoodRequest(k))
    \/ FormCallbacks

SpecStorage == InitOpening /\ [][NextStorage]_vars

\* indexedDB.open answers, a storage request the database can serve completes and
\* a remote call is answered, sooner or later
SpecStorageFair ==
    SpecStorage /\ WF_vars(DBOpened \/ DBFailed) /\ WF_vars(FormCallbacks)

\* the conflict detector / resolver and the network gate, on any input
NextPure == DetectConflict \/ ResolveConflict \/ GetSyncStrategy

SpecPure == Init /\ [][NextPure]_vars

\* the record store under any sequence of its operations
NextStore ==
    \/ SaveItem \/ UpdateItem \/ DeleteItem \/ MarkAsSynced \/ RemoveItem
    \/ GetAllItems \/ GetItem

SpecStore == Init /\ [][NextStore]_vars

\* manual syncs of what earlier sessions left, a record created and deleted
\* offline included
InitDeletedLocal == StartedFrom("open", InitialStores \cup StoresWithDeletedLocal)

SpecSyncDeletedLocal ==
    InitDeletedLocal /\ [][NextSync]_vars /\ WF_vars(SyncCallbacks)

\* manual syncs over a record store whose requests may fail
NextSyncFaulty == NextSync \/ SyncStorageFailed

SpecSyncFaulty == Init /\ [][NextSyncFaulty]_vars

\* a storage request completes or fails and a remote call is answered, sooner or
\* later
SpecSyncFaultyFair == SpecSyncFaulty /\ WF_vars(SyncCallbacks \/ SyncStorageFailed)

\* manual syncs against a backend that answers a failed call with a conflict
NextConflict ==
    \/ (ops < MaxSyncs /\ SyncToServer)
    \/ SyncCallbacks
    \/ ManualConflictAnswered \/ ConflictStored

SpecConflict == Init /\ [][NextConflict]_vars

SpecConflictFair == SpecConflict /\ WF_vars(SyncCallbacks \/ ConflictStored)

\* ItemActionService over the mock item API, ItemStateService also driven
\* directly, and another caller deleting at the remote
NextItemState ==
    \/ LoadItems \/ ItemsLoaded \/ DeleteItemAction \/ ItemDeleted \/ SelectItem
    \/ StateUpdateItem \/ StateRemoveItem \/ DeleteOneItem

SpecItemState == Init /\ [][NextItemState]_vars

\* manual syncs against a backend that answers a failed call with a conflict,
\* under a clock that never goes back
NextConflictClock ==
    \/ (ops < MaxSyncs /\ SyncToServer)
    \/ SyncCallbacks
    \/ ManualConflictAnswered \/ ConflictRead
    \/ Tick

SpecConflictClock == Init /\ [][NextConflictClock]_vars

\* manual syncs of what earlier sessions left, the session reset and the
\* dismissal of a sync error
NextReset == NextSync \/ Reset \/ SyncStateReset \/ ClearSyncError

SpecReset == Init /\ [][NextReset]_vars

\* the conflict list under any sequence of its mutators
NextConflictList == AddConflict \/ MarkConflictResolved \/ RemoveConflict \/ ClearConflicts

SpecConflictList == Init /\ [][NextConflictList]_vars

\* the mock item API and its callers
NextItems ==
    \/ GetItems \/ GetOneItem \/ CreateItem \/ UpdateOneItem \/ DeleteOneItem
    \/ WriteListed \/ WriteCopy

SpecItems == Init /\ [][NextItems]_vars

\* ------------------------------------------------------------------ claims
\* the record with identifier id, as the active view holds it
Viewed(id) == {audits[i] : i \in {j \in 1..Len(audits) : audits[j].externalId = id}}

\* C1: in every reachable state the active view contains no record whose
\* stored status is deleted.
C1_NoDeletedRecordInView ==
    \A id \in ViewIds : id \in DOMAIN store => store[id]._status # "deleted"

\* C2: when the remote create of an optimistic record has succeeded and the
\* operation has completed, the local identifier is absent and the server's record
\* is present as synced, in both the store and the active view.
C2_CreateReplacesLocalRecord ==
    ev.k = "SyncCreateSaved" =>
        /\ ev.id \notin DOMAIN store
        /\ ev.rec.ExternalId \in DOMAIN store
        /\ store[ev.rec.ExternalId] = OfflineItem(ev.rec, "synced")
        /\ ev.id \notin ViewIds
        /\ Viewed(ev.rec.ExternalId) = {transformApiAuditToAudit(ev.rec)}

\* C3: when the remote delete of a record deleted online has failed, the record
\* is back in the active view and an error is surfaced.
C3_FailedDeleteRestoresRecord ==
    (ev.k = "SyncDeleteAnswered" /\ ~ev.ok) =>
        /\ ev.id \in ViewIds
        /\ error # NoError \/ syncError # NoSyncError

\* C4: createAudit with valid input while offline adds exactly one record to the
\* store, pending and under a local identifier, and shows it in the active view;
\* neither the call nor its storage callback issues a remote call or surfaces an
\* error.
C4_OfflineCreateStaysLocal ==
    [][/\ (ev'.k = "CreateAudit" /\ ops' = ops + 1) =>
            /\ ev'.calls = 0 /\ inflight' = inflight /\ mockAudits' = mockAudits
            /\ store' = store /\ audits' = audits
            /\ error' = NoError /\ syncError' = syncError /\ syncStatus' = syncStatus
       /\ (ev'.k = "CreateSaved" /\ ops' = ops /\ ~isOnline) =>
            /\ StartsWithLocal(ev'.id)
            /\ ev'.id \notin DOMAIN store
            /\ DOMAIN store' = DOMAIN store \cup {ev'.id}
            /\ \A id \in DOMAIN store : store'[id] = store[id]
            /\ store'[ev'.id] = OfflineItem(ev'.rec, "pending")
            /\ ev'.rec.ExternalId = ev'.id
            /\ audits' = Append(audits, transformApiAuditToAudit(ev'.rec))
            /\ ev'.calls = 0 /\ inflight' = inflight /\ mockAudits' = mockAudits
            /\ error' = error /\ syncError' = syncError /\ syncStatus' = syncStatus
      ]_vars

\* an offline create has been stored: one pending local record, shown, no call out
C4_Witness ==
    /\ ev.k = "CreateSaved" /\ ~isOnline /\ ev.calls = 0
    /\ store[ev.id]._status = "pending" /\ ev.id \in ViewIds
    /\ inflight = EmptyBag /\ error = NoError

\* C7: a background reconciliation (the only operation run) leaves every record
\* that was pending in the store when it started stored as pending with its local
\* content, and present in the active view, when it finishes.
C7_ReconciliationKeepsPending ==
    (ops = 1 /\ ev.k = "BackgroundSaved") =>
        \A k \in 1..nextLocal :
            /\ LocalId(k) \in DOMAIN store
            /\ store[LocalId(k)] = PendingLeft(LocalId(k))
            /\ Viewed(LocalId(k)) = {transformApiAuditToAudit(store[LocalId(k)])}

\* C8: when the remote fetch of a background reconciliation fails, the sync
\* status does not transition to error.
C8_BackgroundFailureIsWarning ==
    [][(ev'.k = "BackgroundAnswered" /\ ops' = ops /\ ~ev'.ok) =>
            (syncStatus' = "error" => syncStatus = "error")]_vars

\* C9: when updateAudit's remote update has succeeded, the version the remote
\* returned is in the store as synced and in the active view.
C9_UpdatePersistsReturnedVersion ==
    (ev.k = "UpdateAnswered" /\ ev.ok) =>
        /\ ev.id \in DOMAIN store
        /\ store[ev.id] = OfflineItem(ev.rec, "synced")
        /\ Viewed(ev.id) = {transformApiAuditToAudit(ev.rec)}

\* the first processPendingAudits call has counted every item
FirstRunDone == Len(runs) >= 1 /\ runs[1].processed = runs[1].total

\* C5: a manual sync started with nothing else in flight (the first of a session)
\* dispatches exactly as many remote calls as the store holds pending and deleted
\* records, and the sync status is syncing for as long as one of them is unanswered.
C5_ManualSyncDispatchesAll ==
    /\ (ev.k = "SyncDeletedRead" /\ Len(runs) <= 1) =>
            ev.calls = Len(getPendingItems(store)) + Len(getDeletedItems(store))
    /\ (Len(runs) = 1 /\ ManualCalls # {}) =>
            /\ syncStatus = "syncing"
            /\ runs[1].processed < runs[1].total

\* a first manual sync of a pending and a deleted record, one counted, the other
\* unanswered
C5_Witness ==
    /\ Len(runs) = 1 /\ runs[1].total = 2 /\ runs[1].processed = 1
    /\ Len(getPendingItems(store)) + Len(getDeletedItems(store)) >= 1
    /\ ManualCalls # {} /\ syncStatus = "syncing"

\* C6 (every item whose remote call failed is still stored with its pending or
\* deleted status afterwards): once the first manual sync has counted every item,
\* each identifier it logged as failed is in the store as pending or deleted.
C6_FailedItemsKeepStatus ==
    (Len(runs) = 1 /\ FirstRunDone) =>
        \A id \in errorLog :
            id \in DOMAIN store /\ store[id]._status \in {"pending", "deleted"}

\* C6 (a manual sync whose remote calls all respond reaches success whatever the
\* outcomes): the first manual sync counts every item, and the step that counts
\* the last one sets the status success.
C6_ManualSyncReachesSuccess ==
    /\ (Len(runs) >= 1) ~> FirstRunDone
    /\ [][(~FirstRunDone /\ FirstRunDone') => syncStatus' = "success"]_vars

\* the required fields and the message that reports each as missing
MissingMessage ==
    [slotNumber |-> "Slot number is required",
     primaryBarcode |-> "Primary barcode is required",
     warehouseLogistics |-> "Warehouse logistics is required",
     auditors |-> "Auditor name is required",
     warehouseLocation |-> "Warehouse location is required"]

\* the required fields a record built from a request leaves blank
MissingFields(rec) ==
    LET r == transformCreateRequestToApiRequest(rec)
    IN  {f \in DOMAIN MissingMessage : r[f] \in {Blank, Spaces}}

\* C10: createAudit or updateAudit called with a blank required field is rejected
\* in the call itself: the error lists every missing field, no storage request
\* and no remote call is issued, and store, active view and sync state are as
\* they were.
C10_BlankFieldRejected ==
    [][(ev'.k \in {"CreateAudit", "CreateRejected", "UpdateAudit", "UpdateRejected"}
        /\ ops' = ops + 1 /\ MissingFields(ev'.rec) # {}) =>
            /\ \A f \in MissingFields(ev'.rec) :
                    \E i \in 1..Len(error') : error'[i] = MissingMessage[f]
            /\ ev'.calls = 0 /\ storageQ' = storageQ /\ inflight' = inflight
            /\ store' = store /\ mockAudits' = mockAudits /\ audits' = audits
            /\ loading' = loading /\ nextLocal' = nextLocal
            /\ syncStatus' = syncStatus /\ syncError' = syncError
            /\ currentOperation' = currentOperation /\ currentItemId' = currentItemId
            /\ pendingRecordsCount' = pendingRecordsCount
      ]_vars

\* an update of a loaded record with two required fields blank has been rejected
C10_Witness ==
    /\ ev.k = "UpdateRejected" /\ ev.id \in ViewIds
    /\ Cardinality(MissingFields(ev.rec)) = 2 /\ Len(error) = 2
    /\ storageQ = <<>> /\ inflight = EmptyBag

\* C11: syncToServer called while offline, or while the sync status is syncing,
\* issues no storage request and no remote call, leaves store, remote and active
\* view as they were, and leaves a sync error set.
C11_GatedSyncIsNoOpWithError ==
    [][(ev'.k = "SyncToServer" /\ ops' = ops + 1
        /\ (~isOnline \/ syncStatus = "syncing")) =>
            /\ ev'.calls = 0 /\ inflight' = inflight /\ storageQ' = storageQ
            /\ store' = store /\ mockAudits' = mockAudits /\ audits' = audits
            /\ syncError' # NoSyncError
      ]_vars

\* C11 (the part the code keeps): the gated call is a no-op, and the offline one
\* sets the sync error.
C11_GatedSyncIsNoOp ==
    [][(ev'.k = "SyncToServer" /\ ops' = ops + 1
        /\ (~isOnline \/ syncStatus = "syncing")) =>
            /\ ev'.calls = 0 /\ inflight' = inflight /\ storageQ' = storageQ
            /\ store' = store /\ mockAudits' = mockAudits /\ audits' = audits
            /\ ~isOnline => syncError' = "Cannot sync: offline"
      ]_vars

\* the status changes the data model allows a stored record
AllowedTransitions ==
    {<<"synced", "pending">>, <<"pending", "synced">>, <<"pending", "deleted">>}

\* C12: in every step, a stored record keeps its status or changes it along synced
\* to pending, pending to synced or pending to deleted, and a record leaves the
\* store only from status deleted.
C12_OnlyAllowedTransitions ==
    [][\A id \in DOMAIN store :
            IF id \in DOMAIN store'
            THEN \/ store'[id]._status = store[id]._status
                 \/ <<store[id]._status, store'[id]._status>> \in AllowedTransitions
            ELSE store[id]._status = "deleted"
      ]_vars

\* the identifiers the remote holds
RemoteIds == {mockAudits[i].ExternalId : i \in 1..Len(mockAudits)}

\* the identifiers stored and not marked deleted
ActiveIds == {id \in DOMAIN store : store[id]._status # "deleted"}

\* C13: once a create and a delete of the same optimistic record, the delete
\* issued while the remote create was in flight, have both completed (no storage
\* request and no remote call is outstanding), the record is not at the remote or
\* active in the store while absent from the active view.
C13_DeleteDuringCreateAgrees ==
    (storageQ = <<>> /\ inflight = EmptyBag) =>
        \A r \in raced :
            LET ids == {r.local, r.server} \ {0}
            IN  ids \cap (RemoteIds \cup ActiveIds) # {} => ids \cap ViewIds # {}

\* C14: detectConflict returns no conflict whenever the six business fields of
\* local and remote are equal, whatever the timestamps; when it returns a conflict,
\* a business field differs and the local record was modified after the baseline
\* the conflict carries as serverModified.
C14_ConflictOnlyWhenDiverged ==
    probe.fn = "detectConflict" =>
        LET differ ==
                \E f \in BusinessFields : probe.localAudit[f] # probe.serverAudit[f]
        IN  /\ ~differ => probe.result = NoConflict
            /\ probe.result # NoConflict =>
                    /\ differ
                    /\ probe.result.localModified = probe.localModified
                    /\ probe.result.localModified > probe.result.serverModified

\* detectConflict has returned a conflict for records unlike in their comments only
C14_Witness ==
    /\ probe.fn = "detectConflict" /\ probe.result # NoConflict
    /\ probe.localAudit.Comments # probe.serverAudit.Comments
    /\ \A f \in BusinessFields \ {"Comments"} :
            probe.localAudit[f] = probe.serverAudit[f]

\* C15: resolveConflict returns use-server when serverModified > localModified,
\* use-local when localModified > serverModified, and use-server when they are equal.
C15_LastWriteWins ==
    probe.fn = "resolveConflict" =>
        /\ probe.conflict.serverModified > probe.conflict.localModified =>
                probe.result = "use-server"
        /\ probe.conflict.localModified > probe.conflict.serverModified =>
                probe.result = "use-local"
        /\ probe.conflict.localModified = probe.conflict.serverModified =>
                probe.result = "use-server"

\* resolveConflict has decided a tie
C15_Witness ==
    /\ probe.fn = "resolveConflict" /\ probe.result = "use-server"
    /\ probe.conflict.localModified = probe.conflict.serverModified
    /\ probe.conflict.localModified > 0

\* C19: getSyncStrategy returns skip when the status is offline; delayed when the
\* status is slow or data saving is requested; immediate when the status is online
\* with a downlink above 1.5 Mbps; delayed in every other case.
C19_SyncStrategy ==
    probe.fn = "getSyncStrategy" =>
        LET info == probe.info
            fast == /\ info.status = "online"
                    /\ info.downlink # Undefined /\ info.downlink > FastDownlink
        IN  /\ info.status = "offline" => probe.result = "skip"
            /\ info.status = "slow" => probe.result = "delayed"
            /\ (info.status # "offline" /\ info.saveData) => probe.result = "delayed"
            /\ (fast /\ ~info.saveData) => probe.result = "immediate"
            /\ (info.status = "online" /\ ~fast) => probe.result = "delayed"

\* getSyncStrategy has said delayed for an online connection of exactly 1.5 Mbps
C19_Witness ==
    /\ probe.fn = "getSyncStrategy" /\ probe.result = "delayed"
    /\ probe.info.status = "online" /\ probe.info.downlink = FastDownlink
    /\ ~probe.info.saveData

\* C16: when a load (the session's only operation) that found no active record in
\* the store while online completes its fetch from the remote, the active view
\* holds exactly the records the remote returned, which are all it holds, each is
\* stored as synced, loading is false and the pending count is 0.
C16_FirstLoadFromRemote ==
    [][(ev'.k = "ServerLoadSaved" /\ ops' = ops /\ ops = 1) =>
            LET serverAudits == Head(storageQ).list
            IN  /\ serverAudits = mockAudits
                /\ audits' = transformApiAuditsToAudits(serverAudits)
                /\ \A i \in 1..Len(serverAudits) :
                        /\ serverAudits[i].ExternalId \in DOMAIN store'
                        /\ store'[serverAudits[i].ExternalId]
                                = OfflineItem(serverAudits[i], "synced")
                /\ ~loading' /\ pendingRecordsCount' = 0 /\ error' = NoError
      ]_vars

\* a first load has fetched the remote's records into an empty store
C16_Witness ==
    /\ ev.k = "ServerLoadSaved" /\ ops = 1 /\ ~loading
    /\ Len(audits) = NumSeed /\ Cardinality(DOMAIN store) = NumSeed
    /\ \A id \in DOMAIN store : store[id]._status = "synced" /\ id \in ViewIds

\* C17: a load whose storage read completes while offline publishes the active
\* stored records (synced and pending), issues no remote call, leaves the sync
\* status and the error alone (idle and none when the load is the session's only
\* operation), and ends loading; the count that follows sets the pending count to
\* the number of pending records stored.
C17_OfflineLoadFromStore ==
    [][/\ (ev'.k = "LoadAudits" /\ ops' = ops + 1) =>
            /\ ev'.calls = 0 /\ inflight' = inflight
            /\ error' = NoError /\ syncStatus' = syncStatus
       /\ (ev'.k = "StorageLoaded" /\ ops' = ops /\ ~isOnline) =>
            /\ audits' = transformApiAuditsToAudits(getAllItems(store))
            /\ \A id \in ActiveIds : id \in ViewIds'
            /\ store' = store /\ mockAudits' = mockAudits
            /\ ev'.calls = 0 /\ inflight' = inflight
            /\ syncStatus' = syncStatus /\ error' = error /\ ~loading'
            /\ storageQ' # <<>>
            /\ storageQ'[Len(storageQ')].k = "getPendingItems/count"
            /\ ops = 1 => (syncStatus' = "idle" /\ error' = NoError)
       /\ (ev'.k = "PendingCounted" /\ ops' = ops) =>
            /\ pendingRecordsCount' = Len(getPendingItems(store))
            /\ store' = store /\ audits' = audits
            /\ syncStatus' = syncStatus /\ error' = error
            /\ ev'.calls = 0 /\ inflight' = inflight
            /\ (ops = 1 /\ ~isOnline) => (syncStatus' = "idle" /\ error' = NoError)
      ]_vars

\* an offline load of a store with a synced and a pending record has shown both
\* and counted one
C17_Witness ==
    /\ ev.k = "PendingCounted" /\ ops = 1 /\ ~isOnline
    /\ Len(audits) = 2 /\ pendingRecordsCount = 1
    /\ \E i \in 1..2 : audits[i].synced
    /\ syncStatus = "idle" /\ error = NoError /\ ~loading /\ inflight = EmptyBag

\* C18: when the database could not be opened, the storage requests issued do not
\* stay pending and a load in progress ends (by the remote fallback, or by a load
\* error when offline): loading becomes false and no storage request is left.
C18_FailedStoreEndsLoad ==
    (db = "failed" /\ loading) ~> (~loading /\ storageQ = <<>>)

\* C20: when the remote create of an optimistic record fails, the record is still
\* stored as pending, the active view is as it was, and a sync error is set; a
\* manual sync sends every pending record under a local identifier as a create.
C20_FailedCreateStaysPending ==
    [][/\ (ev'.k = "SyncCreateAnswered" /\ ops' = ops /\ ~ev'.ok) =>
            /\ store' = store /\ audits' = audits
            /\ ev'.id \in DOMAIN store /\ store[ev'.id]._status = "pending"
            /\ StartsWithLocal(ev'.id)
            /\ syncError' # NoSyncError
       /\ (ev'.k = "SyncDeletedRead" /\ ops' = ops) =>
            \A i \in 1..Len(Head(storageQ).list) :
                LET id == Head(storageQ).list[i].ExternalId
                IN  StartsWithLocal(id) =>
                        \E task \in BagToSet(inflight') :
                            /\ task.k = "createAudit/manual" /\ task.id = id
                            /\ CopiesIn(task, inflight') = CopiesIn(task, inflight) + 1
      ]_vars

\* no manual sync has read, or is about to read, the pending records
NoSyncStarted ==
    /\ runs = <<>>
    /\ \A i \in 1..Len(storageQ) :
            storageQ[i].k \notin {"getPendingItems/sync", "getDeletedItems/sync"}

\* C20 (the case the code keeps): the same, for a create that fails before any
\* manual sync was started.
C20_FailedCreateStaysPendingBeforeSync ==
    [][/\ (ev'.k = "SyncCreateAnswered" /\ ops' = ops /\ ~ev'.ok /\ NoSyncStarted) =>
            /\ store' = store /\ audits' = audits
            /\ ev'.id \in DOMAIN store /\ store[ev'.id]._status = "pending"
            /\ ev'.id \in ViewIds
            /\ syncError' # NoSyncError
       /\ (ev'.k = "SyncDeletedRead" /\ ops' = ops) =>
            \A i \in 1..Len(Head(storageQ).list) :
                LET id == Head(storageQ).list[i].ExternalId
                IN  StartsWithLocal(id) =>
                        \E task \in BagToSet(inflight') :
                            /\ task.k = "createAudit/manual" /\ task.id = id
                            /\ CopiesIn(task, inflight') = CopiesIn(task, inflight) + 1
      ]_vars

\* C21: after any sequence of saveItem, updateItem, deleteItem, markAsSynced and
\* removeItem, getAllItems returns exactly the stored records whose status is not
\* deleted, each once (the empty list for an empty store), and getItem(id) returns
\* null for an id that is absent or marked deleted, the stored record otherwise.
C21_ReadsHideDeleted ==
    /\ probe.fn = "getAllItems" =>
        /\ {probe.result[i] : i \in 1..Len(probe.result)}
                = {store[id] : id \in {k \in DOMAIN store : store[k]._status # "deleted"}}
        /\ Len(probe.result)
                = Cardinality({k \in DOMAIN store : store[k]._status # "deleted"})
        /\ DOMAIN store = {} => probe.result = <<>>
    /\ probe.fn = "getItem" =>
        IF probe.id \notin DOMAIN store THEN probe.result = NoItem
        ELSE IF store[probe.id]._status = "deleted" THEN probe.result = NoItem
        ELSE probe.result = store[probe.id]

\* getAllItems has returned one record of a store that holds two, the other marked
\* deleted by deleteItem
C21_Witness ==
    /\ probe.fn = "getAllItems" /\ Len(probe.result) = 1 /\ ops >= 2
    /\ Cardinality(DOMAIN store) = 2
    /\ \E id \in DOMAIN store : store[id]._status = "deleted" /\ StartsWithLocal(id)

\* C22: a write to a record object of the list getItems returned does not change
\* the data a later getItems call returns.
C22_ReturnedListIsolated ==
    [][(ev'.k = "WriteListed" /\ ops' = ops + 1) =>
            ItemData(itemApi') = ItemData(itemApi)]_vars

\* C22 (the case the code keeps): a write to the record getItem, createItem or
\* updateItem returned does not change the data a later getItems call returns.
C22_ReturnedCopyIsolated ==
    [][(ev'.k = "WriteCopy" /\ ops' = ops + 1) =>
            ItemData(itemApi') = ItemData(itemApi)]_vars

\* the conflicts recorded under identifier id
ConflictsOf(cs, id) == {cs[i] : i \in {j \in 1..Len(cs) : cs[j].itemId = id}}

\* a save of the remote version is queued for the conflict of identifier id
ResolutionQueued(q, id) ==
    \E i \in 1..Len(q) : q[i].k = "saveItem/conflict" /\ q[i].id = id

C23_RecordedConflictsAreLocalWins ==
    /\ \A i \in 1..Len(conflicts) :
            conflicts[i].localModified > conflicts[i].serverModified
            /\ conflicts[i].resolved
    /\ \A i \in 1..Len(storageQ) : storageQ[i].k # "saveItem/conflict"

\* the store holds what the first manual sync's successful creates call for: each
\* record the remote created is stored as synced, and no record under a local
\* identifier is left but those whose call failed
Reconciled(st) ==
    /\ \A i \in (NumSeed + 1)..Len(mockAudits) :
            /\ mockAudits[i].ExternalId \in DOMAIN st
            /\ st[mockAudits[i].ExternalId] = OfflineItem(mockAudits[i], "synced")
    /\ \A id \in DOMAIN st : StartsWithLocal(id) => id \in errorLog

\* C24: in the step in which the first manual sync counts its last item and sets
\* the status success, and in the recount and the refresh that follow, the store
\* read is reconciled: every item whose remote create succeeded is stored as
\* synced and its record under the local identifier is removed.
C24_CompletionReadsReconciledStore ==
    [][/\ (Len(runs') = 1 /\ ~FirstRunDone /\ FirstRunDone') => Reconciled(store')
       /\ (Len(runs) = 1 /\ FirstRunDone /\ ops' = ops
           /\ ev'.k \in {"PendingCounted", "StorageLoaded"}) => Reconciled(store)
      ]_vars

\* the remote calls of sync operations awaiting their answer: background fetch,
\* optimistic create, optimistic delete, the items of a manual sync
SyncCalls ==
    Awaiting({"getAudits/background", "createAudit/syncCreate", "deleteAudit/syncDelete",
              "createAudit/manual", "updateAudit/manual", "deleteAudit/manual"})

\* C25: the sync status is syncing whenever a remote call of a sync operation is
\* in flight.
C25_SyncingWhileInFlight == SyncCalls # {} => syncStatus = "syncing"

\* the remote create calls in flight for the record under local identifier id
\* whose outcome is not a success (a success is counted in created at the call)
FailingCreates(id) ==
    {task \in Awaiting({"createAudit/syncCreate", "createAudit/manual"}) :
        task.id = id /\ ~task.ok}

RECURSIVE CopiesOfAll(_, _)
CopiesOfAll(S, B) ==
    IF S = {} THEN 0
    ELSE LET x == CHOOSE y \in S : TRUE
         IN  CopiesIn(x, B) + CopiesOfAll(S \ {x}, B)

\* C26: for every record created locally, the remote creates that succeeded and
\* those still in flight are at most one in all: no remote create is dispatched
\* for it while an earlier one is in flight or has succeeded.
C26_AtMostOneRemoteCreate ==
    \A k \in 1..nextLocal :
        CopiesIn(LocalId(k), created) + CopiesOfAll(FailingCreates(LocalId(k)), inflight) <= 1

\* C27: a manual sync does not leave the sync status at syncing for ever, also
\* when reading the pending or deleted records fails or the removal from the store
\* after an acknowledged remote delete fails.
C27_SyncingEnds == (syncStatus = "syncing") ~> (syncStatus # "syncing")

\* the records stored as deleted under a local identifier
DeletedLocals == {id \in DOMAIN store : StartsWithLocal(id) /\ store[id]._status = "deleted"}

\* C28: a record stored as deleted under a local identifier is eventually removed
\* from the store by a manual sync in which every remote call responds (the sync
\* has dispatched its calls and none of them fails in transport).
C28_DeletedLocalIsRemoved ==
    (/\ ev.k = "SyncDeletedRead" /\ Len(runs) = 1
     /\ \A task \in BagToSet(inflight) : task.ok
     /\ DeletedLocals # {})
        ~> (DeletedLocals = {})

\* the number of tasks of the bag B that satisfy the run's test
RECURSIVE CopiesOfRun(_, _, _)
CopiesOfRun(S, B, r) ==
    IF S = {} THEN 0
    ELSE LET x == CHOOSE y \in S : TRUE
         IN  (IF x.run = r THEN CopiesIn(x, B) ELSE 0) + CopiesOfRun(S \ {x}, B, r)

\* the items of run r not counted yet: their remote call is unanswered, or their
\* removal from the store after an acknowledged delete is still queued
Uncounted(r) ==
    CopiesOfRun(ManualCalls, inflight, r)
    + Cardinality({i \in 1..Len(storageQ) :
                    storageQ[i].k = "removeItem/manualDelete" /\ storageQ[i].run = r})

\* the refreshes queued
Loads(q) == Cardinality({i \in 1..Len(q) : q[i].k = "getAllItems/load"})

\* the runs that count their last item in this step
Completing ==
    {r \in 1..Len(runs') :
        /\ runs'[r].processed = runs'[r].total
        /\ r \in 1..Len(runs) => runs[r].processed # runs[r].total}

\* C29: in a manual sync every dispatched item is counted exactly once, whatever
\* the order of the answers (counted and uncounted items add up to the total, so
\* the counter never exceeds it), and the completion step (status success,
\* recount, refresh) runs once, in the step that counts the last item.
C29_EachItemCountedOnce ==
    /\ [](\A r \in 1..Len(runs) :
            /\ runs[r].processed + Uncounted(r) = runs[r].total
            /\ runs[r].processed <= runs[r].total)
    /\ [][/\ Loads(storageQ') =
                Loads(storageQ) - (IF ev'.k = "StorageLoaded" /\ ops' = ops THEN 1 ELSE 0)
                + Cardinality(Completing)
          /\ Completing # {} =>
                /\ syncStatus' = "success" /\ currentOperation' = "null"
                /\ \E i \in 1..Len(storageQ') : storageQ'[i].k = "getPendingItems/count"
         ]_vars

\* a manual sync of two items has completed, the create (dispatched first)
\* answered after the delete was answered and its record removed
C29_Witness ==
    /\ Len(runs) = 1 /\ runs[1].total = 2 /\ runs[1].processed = 2
    /\ ev.k = "ManualAnswered" /\ StartsWithLocal(ev.id) /\ ev.ok
    /\ Loads(storageQ) = 1 /\ syncStatus = "success"
    /\ \A id \in DOMAIN store : store[id]._status # "deleted"

\* C30: deleteAudit(id) removes the record from the active view in the call
\* itself; its storage callback has the record marked deleted in the store; while
\* offline the callback issues no remote call and the record stays stored as
\* deleted; when the remote delete has succeeded and the removal has completed,
\* the record is gone from the store.
C30_DeleteIsOptimistic ==
    [][/\ (ev'.k = "DeleteAudit" /\ ops' = ops + 1) =>
            /\ ev'.id \notin ViewIds'
            /\ \A id \in ViewIds \ {ev'.id} : id \in ViewIds'
            /\ store' = store /\ ev'.calls = 0 /\ inflight' = inflight
       /\ (ev'.k = "DeleteMarked" /\ ops' = ops) =>
            /\ ev'.id \in DOMAIN store'
            /\ store'[ev'.id]._status = "deleted"
            /\ \A id \in DOMAIN store \ {ev'.id} : store'[id] = store[id]
            /\ ~isOnline =>
                    /\ ev'.calls = 0 /\ inflight' = inflight /\ mockAudits' = mockAudits
                    /\ ~loading'
       /\ (ev'.k = "SyncDeleteRemoved" /\ ops' = ops) =>
            /\ ev'.id \notin DOMAIN store'
            /\ \A i \in 1..Len(mockAudits') : mockAudits'[i].ExternalId # ev'.id
      ]_vars

\* The same three steps for a record that is in the store when its storage
\* callback runs.
C30_StoredRecordIsMarked ==
    [][/\ (ev'.k = "DeleteAudit" /\ ops' = ops + 1) =>
            /\ ev'.id \notin ViewIds'
            /\ \A id \in ViewIds \ {ev'.id} : id \in ViewIds'
            /\ store' = store /\ ev'.calls = 0 /\ inflight' = inflight
       /\ (ev'.k = "DeleteMarked" /\ ops' = ops /\ ev'.id \in DOMAIN store) =>
            /\ ev'.id \in DOMAIN store'
            /\ store'[ev'.id]._status = "deleted"
            /\ \A id \in DOMAIN store \ {ev'.id} : store'[id] = store[id]
            /\ ~isOnline =>
                    /\ ev'.calls = 0 /\ inflight' = inflight /\ mockAudits' = mockAudits
                    /\ ~loading'
       /\ (ev'.k = "SyncDeleteRemoved" /\ ops' = ops) =>
            /\ ev'.id \notin DOMAIN store'
            /\ \A i \in 1..Len(mockAudits') : mockAudits'[i].ExternalId # ev'.id
      ]_vars

\* C31: under a clock that never goes back, no stored record is stamped later
\* than the present time, so detectConflict confirms nothing: no conflict is
\* recorded and no save of a remote version is queued.
C31_NoConflictUnderMonotoneClock ==
    /\ conflicts = <<>>
    /\ \A id \in DOMAIN store : lastModified[id] <= clock
    /\ \A i \in 1..Len(storageQ) : storageQ[i].k # "saveItem/conflict"

\* handleConflict has read a stored pending record that differs from the version
\* the remote answered with, at a time after the record's last write
C31_Witness ==
    /\ ev.k = "ConflictRead" /\ ~ev.ok
    /\ ev.id \in DOMAIN store /\ store[ev.id]._status = "pending"
    /\ store[ev.id].Comments # ev.rec.Comments
    /\ lastModified[ev.id] < clock
    /\ conflicts = <<>>

\* no storage request is queued and no remote call awaits its answer
Quiescent == storageQ = <<>> /\ inflight = EmptyBag

PendingIn(st) == {id \in DOMAIN st : st[id]._status = "pending"}

\* C32: once an operation of the orchestrator has run and all its callbacks have
\* completed, pendingCount is the number of records stored with status pending.
C32_PendingCountMatchesStore ==
    (ops > 0 /\ ev.k # "NetworkChange" /\ Quiescent) =>
        pendingRecordsCount = Cardinality(PendingIn(store))

\* ... when the step before was a callback or a call that issued a request (not
\* a manual sync that was refused, not a change of the network)
C32_CountedAfterCallbacks ==
    (ev.k \notin {"Init", "NetworkChange", "SyncToServer"} /\ Quiescent) =>
        pendingRecordsCount = Cardinality(PendingIn(store))

\* every SyncState field holds the value it is constructed with
SyncStateInitial(s) ==
    /\ s.syncStatus = "idle" /\ s.currentOperation = "null" /\ s.currentItemId = 0
    /\ s.lastSyncTime = NoTime /\ s.syncError = NoSyncError
    /\ s.pendingRecordsCount = 0 /\ s.conflicts = <<>>

\* C33: after a reset, through SyncStateService.reset or through the
\* orchestrator's reset, every SyncState field holds its initial value.
C33_ResetRestoresSyncState ==
    [][(ev'.k \in {"Reset", "SyncStateReset"} /\ ops' = ops + 1) => SyncStateInitial(Cur)']_vars

\* ... through SyncStateService.reset alone
C33_SyncStateResetRestores ==
    [][(ev'.k = "SyncStateReset" /\ ops' = ops + 1) => SyncStateInitial(Cur)']_vars

\* C34: the sync error is set exactly when the sync status is error; a run that
\* sets status syncing carries no error of an earlier run.
C34_ErrorIffStatusError == (syncError # NoSyncError) <=> (syncStatus = "error")

\* C35: no two records the remote holds share an identifier (items).
C35_RemoteItemIdsUnique ==
    \A i, j \in 1..Len(itemApi.mockItems) :
        itemApi.heap[itemApi.mockItems[i]].id = itemApi.heap[itemApi.mockItems[j]].id => i = j

\* C35 for the audits of the mock remote
C35_RemoteAuditIdsUnique ==
    \A i, j \in 1..Len(mockAudits) : mockAudits[i].ExternalId = mockAudits[j].ExternalId => i = j

\* the identifiers of the items ItemStateService lists
ListedIds(st) == {st.items[i].id : i \in 1..Len(st.items)}

\* C36: ItemActionService.deleteItem removes the item from the state only when
\* the remote delete succeeded; when it fails the error is set, loading ends
\* false and the item list is left unchanged.
C36_FailedDeleteKeepsList ==
    [][/\ (ev'.k = "DeleteItemAction" /\ ~ev'.ok /\ ops' = ops + 1) =>
            /\ itemState'.error # "" /\ ~itemState'.loading
            /\ itemState'.items = itemState.items
       /\ (ev'.k = "DeleteItemAction" /\ ev'.ok /\ ops' = ops + 1) =>
            itemState'.items = itemState.items
       /\ ev'.k = "ItemDeleted" =>
            /\ ev'.id \notin ListedIds(itemState') /\ ~itemState'.loading
      ]_vars

\* ... without the list of a failed delete
C36_FailedDeleteSetsError ==
    [][(ev'.k = "DeleteItemAction" /\ ~ev'.ok /\ ops' = ops + 1) =>
            (itemState'.error # "" /\ ~itemState'.loading)]_vars

\* C37: the conflict list holds at most one entry per itemId; addConflict for an
\* item that has an entry replaces it by the new, unresolved one, in place, and
\* appends otherwise.
C37_OneConflictPerItem ==
    /\ [](\A i, j \in 1..Len(conflicts) : conflicts[i].itemId = conflicts[j].itemId => i = j)
    /\ [][ev'.k = "AddConflict" /\ ops' = ops + 1 =>
            /\ ConflictsOf(conflicts', ev'.id) = {ev'.rec}
            /\ ~ev'.rec.resolved
            /\ Len(conflicts') = Len(conflicts) + (IF ev'.ok THEN 0 ELSE 1)
            /\ \A i \in 1..Len(conflicts) :
                    conflicts[i].itemId # ev'.id => conflicts'[i] = conflicts[i]
         ]_vars

\* a conflict has been added for an item that had one, with another item's
\* conflict in the list
C37_Witness ==
    /\ ev.k = "AddConflict" /\ ev.ok
    /\ Len(conflicts) = 2
    /\ \E c \in ConflictsOf(conflicts, ev.id) : ~c.resolved

\* C38: when the remote fetch of a background reconciliation fails, the active
\* view and the store are left as they were and loading ends false.
C38_BackgroundFailureKeepsView ==
    [][(ev'.k = "BackgroundAnswered" /\ ops' = ops /\ ~ev'.ok) =>
            /\ audits' = audits
            /\ store' = store
            /\ ~loading']_vars

\* a background reconciliation has failed with records displayed
C38_Witness ==
    /\ ev.k = "BackgroundAnswered" /\ ~ev.ok
    /\ audits # <<>>
    /\ ~loading

\* C39: removeItem(id) clears the selection exactly when the selected item has
\* that id, updateItem(item) replaces the selection exactly when the selected
\* item has the item's id, and both leave the list as it was when no listed item
\* has that id.
C39_SelectionFollowsItem ==
    [][/\ ev'.k \in {"StateRemoveItem", "ItemDeleted"} =>
            /\ itemState'.selectedItem =
                    IF itemState.selectedItem # NoSelection /\ itemState.selectedItem.id = ev'.id
                    THEN NoSelection ELSE itemState.selectedItem
            /\ ev'.id \notin ListedIds(itemState) => itemState'.items = itemState.items
            /\ ev'.id \notin ListedIds(itemState')
       /\ ev'.k = "StateUpdateItem" =>
            /\ itemState'.selectedItem =
                    IF itemState.selectedItem # NoSelection /\ itemState.selectedItem.id = ev'.id
                    THEN ev'.rec ELSE itemState.selectedItem
            /\ ev'.id \notin ListedIds(itemState) => itemState'.items = itemState.items
            /\ ListedIds(itemState') = ListedIds(itemState)
      ]_vars

\* updateItem has replaced the selected item, which the list holds too
C39_Witness ==
    /\ ev.k = "StateUpdateItem"
    /\ itemState.selectedItem = ev.rec
    /\ \E i \in 1..Len(itemState.items) : itemState.items[i] = ev.rec
    /\ Len(itemState.items) > 1

====
